---- MODULE Spec2Model ----
(***************************************************************************)
(* Model of the prompt-builder brief extraction core:                      *)
(*   server/domain/brief-schema.js   Schema Registry                       *)
(*   server/brief-extractor.js       Conflict Resolver, Merge Arbiter,     *)
(*                                   extractBrief                          *)
(*   server/index.js                 Stage Rule Engine, HTTP handlers      *)
(*                                                                         *)
(* Numbers.  Confidences are IEEE-754 doubles in the code.  The model      *)
(* writes a double as an integer count of millionths: the double of the    *)
(* decimal literal 0.72 is 720000.  The code's subtractions and its        *)
(* multiplication by 0.9 do not always land on the double of the exact     *)
(* decimal result (0.8 * 0.9 evaluates to 0.7200000000000001); such a      *)
(* double is written one millionth above or below (720001), which keeps    *)
(* every comparison the code makes exact.  The two rounding tables         *)
(* (SubtractionError, MultiplicationError) list the cases.                 *)
(***************************************************************************)
EXTENDS Integers, Sequences, FiniteSets, TLC

VARIABLES
    pc,              \* position of the running operation
    fieldKey,        \* resolver: the field whose candidates are resolved
    values,          \* resolver: classifiedByField[fieldKey], in transcript order
    resolved,        \* resolver: the loop body's result for fieldKey
    heuristicField,  \* arbiter: mergeField's first argument
    llmField,        \* arbiter: mergeField's second argument
    merged,          \* arbiter: mergeField's result
    finalFields,     \* rule engine: briefExtraction.fields
    progress,        \* rule engine: inspectConversationStages' result
    classified,      \* extractBrief: classifyFieldCandidates' byField
    normalizeWithModel, \* extractBrief: the injected capability, or undefined
    llmRaw,          \* extractBrief: what the awaited model call delivered
    response,        \* extractBrief: the response object
    modelCalls,      \* extractBrief: invocations of the capability so far
    request,         \* server: the request being handled
    httpResponse,    \* server: what res.status(...).json(...) sent
    written,         \* session: what was put into the storage slot
    storage,         \* session: the text stored under SESSION_STORAGE_KEY
    session,         \* session: parseStoredSession's result
    renderedText,    \* segmenter: normalizeHistoryInput's transcriptText
    userTurns,       \* segmenter: segmentTurns' result
    extractions,     \* concurrent extractBrief calls, each with its own state
    registry,        \* module state all calls share: the Schema Registry
    hook,            \* client: the React state of usePromptSession
    fetching         \* client: the request the hook awaits, if any

resolverVars == <<fieldKey, values, resolved>>
arbiterVars == <<heuristicField, llmField, merged>>
engineVars == <<finalFields, progress>>
extractorVars == <<classified, normalizeWithModel, llmRaw, response, modelCalls>>
serverVars == <<request, httpResponse>>
sessionVars == <<written, storage, session>>
textVars == <<renderedText, userTurns>>
callVars == <<extractions, registry>>
hookVars == <<hook, fetching>>

vars == <<pc, resolverVars, arbiterVars, engineVars, extractorVars, serverVars,
         sessionVars, textVars, callVars, hookVars>>

\* what an operation of one component leaves alone
exceptResolver == <<arbiterVars, engineVars, extractorVars, serverVars, sessionVars,
                   textVars, callVars, hookVars>>
exceptArbiter == <<resolverVars, engineVars, extractorVars, serverVars, sessionVars,
                   textVars, callVars, hookVars>>
exceptEngine == <<resolverVars, arbiterVars, extractorVars, serverVars, sessionVars,
                   textVars, callVars, hookVars>>
exceptExtractor == <<resolverVars, arbiterVars, engineVars, serverVars, sessionVars,
                   textVars, callVars, hookVars>>

----------------------------------------------------------------------------
(* Bounds of the model *)

MaxCandidates == 3

----------------------------------------------------------------------------
(* JavaScript values *)

\* null (and undefined) is a reserved one-token text; the empty string is <<>>
null == << "<null>" >>
Truthy(v) == v # null /\ v # <<>>

Max(a, b) == IF a >= b THEN a ELSE b
Min(a, b) == IF a <= b THEN a ELSE b

Hundredths(n) == n * 10000
One == Hundredths(100)

----------------------------------------------------------------------------
(* Schema Registry: brief-schema.js *)

briefFieldKeys ==
    << "objective", "audience", "context", "constraints", "nonGoals",
       "outputFormat", "tone", "examples", "acceptanceCriteria" >>

FieldKeys == { briefFieldKeys[i] : i \in DOMAIN briefFieldKeys }

----------------------------------------------------------------------------
(* Text.  A text is a sequence of tokens: words and whitespace runs. *)

IsSpace(tok) == tok \in {" ", "  ", "\n"}

toLowerCase(tok) ==
    CASE tok = "Draft" -> "draft"
      [] tok = "Memo" -> "memo"
      [] tok = "FAQ" -> "faq"
      [] tok = "User" -> "user"
      [] tok = "Objective" -> "objective"
      [] tok = "Note" -> "note"
      [] tok = "Sure" -> "sure"
      [] tok = "nonGoals" -> "nongoals"
      [] tok = "outputFormat" -> "outputformat"
      [] tok = "acceptanceCriteria" -> "acceptancecriteria"
      [] OTHER -> tok

RECURSIVE collapseWhitespace(_)
collapseWhitespace(text) ==
    IF text = <<>> THEN <<>>
    ELSE IF IsSpace(Head(text))
         THEN LET rest == collapseWhitespace(Tail(text))
              IN  IF rest # <<>> /\ rest[1] = " " THEN rest ELSE <<" ">> \o rest
         ELSE <<Head(text)>> \o collapseWhitespace(Tail(text))

RECURSIVE trimStart(_)
trimStart(text) ==
    IF text # <<>> /\ IsSpace(Head(text)) THEN trimStart(Tail(text)) ELSE text

RECURSIVE trimEnd(_)
trimEnd(text) ==
    IF text # <<>> /\ IsSpace(text[Len(text)])
    THEN trimEnd(SubSeq(text, 1, Len(text) - 1))
    ELSE text

trim(text) == trimEnd(trimStart(text))

normalizeContent(value) ==
    trim(collapseWhitespace([i \in DOMAIN value |-> toLowerCase(value[i])]))

----------------------------------------------------------------------------
(* Candidates: what classifyFieldCandidates pushes onto byField[key] *)

CandidateValues ==
    { << "Draft", " ", "Memo" >>, << "draft", "  ", "memo" >>, << "FAQ" >> }

\* (turnIndex, statementIndex) of one candidate precedes that of another
Precedes(a, b) ==
    \/ a.turnIndex < b.turnIndex
    \/ a.turnIndex = b.turnIndex /\ a.statementIndex < b.statementIndex

\* the flags detectField and detectFieldNegation can give a candidate of `key`
CandidateFlags(key) ==
    { f \in [explicit : BOOLEAN, implicit : BOOLEAN, negated : BOOLEAN] :
        /\ f.explicit => ~f.implicit
        /\ f.implicit => key \in {"audience", "context"}
        /\ f.negated => key \in {"constraints", "nonGoals"} }

Candidate(key, value, flags, turnIndex, statementIndex) ==
    [ key |-> key,
      value |-> value,
      turnIndex |-> turnIndex,
      statementIndex |-> statementIndex,
      explicit |-> flags.explicit,
      implicit |-> flags.implicit,
      negated |-> flags.negated,
      normalizedValue |-> normalizeContent(value) ]

----------------------------------------------------------------------------
(* Confidence calibration: brief-extractor.js, lines 175-194 *)

clampConfidence(value) == Max(0, Min(One, value))

\* Rounding of base - negationPenalty - conflictPenalty (hundredths) in
\* double arithmetic, against the double of the exact decimal result:
\* 0.82 - 0.16 = 0.6599999999999999, 0.8 - 0.08 = 0.7200000000000001.
SubtractionError(base, negationPenalty, conflictPenalty) ==
    LET operands == <<base, negationPenalty, conflictPenalty>>
    IN  CASE operands \in { <<82, 0, 16>>, <<60, 0, 16>>, <<58, 0, 14>>,
                            <<48, 0, 14>> } -> -1
          [] operands \in { <<56, 0, 14>>, <<55, 0, 12>>, <<80, 8, 0>>,
                            <<80, 8, 12>>, <<63, 8, 12>>, <<78, 8, 0>>,
                            <<78, 8, 12>>, <<62, 8, 12>> } -> 1
          [] OTHER -> 0

\* a calibration that leaves the conflict penalty out
CalibratedWithoutConflict(base, negationPenalty, conflictPenalty) ==
    clampConfidence(Hundredths(base - negationPenalty)
                    + SubtractionError(base, negationPenalty, 0))

Calibrated(base, negationPenalty, conflictPenalty) ==
    clampConfidence(Hundredths(base - negationPenalty - conflictPenalty)
                    + SubtractionError(base, negationPenalty, conflictPenalty))

fieldConfidenceCalibrators(key, selected, hasConflict) ==
    CASE key = "objective" ->
           Calibrated(IF selected.explicit THEN 82 ELSE 60, 0,
                      IF hasConflict THEN 16 ELSE 0)
      [] key = "audience" ->
           Calibrated(IF selected.explicit THEN 78
                      ELSE IF selected.implicit THEN 58 ELSE 50, 0,
                      IF hasConflict THEN 14 ELSE 0)
      [] key = "context" ->
           Calibrated(IF selected.explicit THEN 76
                      ELSE IF selected.implicit THEN 56 ELSE 48, 0,
                      IF hasConflict THEN 14 ELSE 0)
      [] key = "constraints" ->
           Calibrated(IF selected.explicit THEN 80 ELSE 63,
                      IF selected.negated THEN 8 ELSE 0,
                      IF hasConflict THEN 12 ELSE 0)
      [] key = "nonGoals" ->
           Calibrated(IF selected.explicit THEN 78 ELSE 62,
                      IF selected.negated THEN 8 ELSE 0,
                      IF hasConflict THEN 12 ELSE 0)
      [] key = "outputFormat" ->
           Calibrated(IF selected.explicit THEN 80 ELSE 55, 0,
                      IF hasConflict THEN 12 ELSE 0)
      [] key = "tone" ->
           Calibrated(IF selected.explicit THEN 72 ELSE 50, 0,
                      IF hasConflict THEN 12 ELSE 0)
      [] key = "examples" ->
           Calibrated(IF selected.explicit THEN 74 ELSE 50, 0,
                      IF hasConflict THEN 12 ELSE 0)
      [] key = "acceptanceCriteria" ->
           Calibrated(IF selected.explicit THEN 75 ELSE 52, 0,
                      IF hasConflict THEN 12 ELSE 0)

----------------------------------------------------------------------------
(* Conflict Resolver: brief-extractor.js, lines 196-253 *)

NoEvidence == "No direct user evidence found for this field."
NegatedByLatest == "Latest user turn explicitly negates this field."
InferredImplicit == "Inferred from implicit phrasing in user statements."
InferredPattern == "Inferred from nearby phrasing using heuristic pattern matching."
ReasonPolarity ==
    "Contradictory statements across turns (affirmed vs negated). Latest user statement was prioritized."
ReasonValues ==
    "Multiple competing values observed across turns. Latest user statement was prioritized."

HasPolarityConflict(entries) ==
    \E i \in DOMAIN entries : entries[i].negated # entries[Len(entries)].negated

uniqueValues(entries) ==
    { entries[i].normalizedValue : i \in { j \in DOMAIN entries : ~entries[j].negated } }

\* a value conflict that also counts the values of negated candidates
HasValueConflictAmongAll(entries) ==
    Cardinality({ entries[i].normalizedValue : i \in DOMAIN entries }) > 1

HasValueConflict(entries) == Cardinality(uniqueValues(entries)) > 1

\* a resolver that lets the first statement win
SelectedFirst(entries) == entries[1]

\* the winner: values[values.length - 1]
Selected(entries) == entries[Len(entries)]

\* a resolver that forgets the non-goals half of the negation rule
NegationOverridesConstraintsOnly(key, selected) ==
    selected.negated /\ key = "constraints"

NegationOverrides(key, selected) ==
    selected.negated /\ key \in {"constraints", "nonGoals"}

ConflictReason(entries) ==
    IF HasPolarityConflict(entries) THEN ReasonPolarity ELSE ReasonValues

\* the body of briefFieldKeys.forEach: the FieldResult of `key` and the
\* UnresolvedConflicts it pushes (none or one)
resolveField(key, entries) ==
    IF entries = <<>>
    THEN [ field |-> [ value |-> null, confidence |-> 0, source |-> "heuristic",
                       assumptions |-> <<NoEvidence>> ],
           conflicts |-> <<>> ]
    ELSE LET selected == Selected(entries)
             hasConflict == HasPolarityConflict(entries) \/ HasValueConflict(entries)
             confidence == fieldConfidenceCalibrators(key, selected, hasConflict)
             field ==
                 IF NegationOverrides(key, selected)
                 THEN [ value |-> null, confidence |-> confidence,
                        source |-> "heuristic",
                        assumptions |-> <<NegatedByLatest>> ]
                 ELSE [ value |-> selected.value, confidence |-> confidence,
                        source |-> "heuristic",
                        assumptions |->
                            IF selected.explicit THEN <<>>
                            ELSE IF selected.implicit THEN <<InferredImplicit>>
                            ELSE <<InferredPattern>> ]
         IN  [ field |-> field,
               conflicts |->
                   IF hasConflict
                   THEN << [ field |-> key,
                             selectedValue |-> field.value,
                             reason |-> ConflictReason(entries),
                             candidates |-> [i \in DOMAIN entries |-> entries[i].value] ] >>
                   ELSE <<>> ]

RECURSIVE ConflictsFrom(_, _)
ConflictsFrom(classifiedByField, i) ==
    IF i > Len(briefFieldKeys) THEN <<>>
    ELSE resolveField(briefFieldKeys[i], classifiedByField[briefFieldKeys[i]]).conflicts
         \o ConflictsFrom(classifiedByField, i + 1)

resolveFieldConflicts(classifiedByField) ==
    [ fields |-> [ key \in FieldKeys |->
                     resolveField(key, classifiedByField[key]).field ],
      unresolvedConflicts |-> ConflictsFrom(classifiedByField, 1) ]

----------------------------------------------------------------------------
(* Merge Arbiter: brief-extractor.js, lines 307-327 *)

\* JSON values the model can put in a field judgment
Undefined == [ t |-> "undefined" ]
NumberValue(v) == [ t |-> "number", v |-> v ]
StringValue == [ t |-> "string" ]
ArrayValue(items) == [ t |-> "array", items |-> items ]

\* Number(confidence || 0): undefined, null and 0 give 0, a number itself,
\* a non-numeric string NaN
NaN == [ t |-> "NaN" ]
ToNumber(raw) ==
    CASE raw.t = "number" -> raw
      [] raw.t = "undefined" -> NumberValue(0)
      [] OTHER -> NaN

\* Rounding of heuristicConfidence * 0.9 in double arithmetic, against the
\* double of the exact decimal product: 0.8 * 0.9 = 0.7200000000000001,
\* 0.43999999999999995 * 0.9 = 0.39599999999999996.  The table covers the
\* confidences the calibrators produce.
MultiplicationError(confidence) ==
    CASE confidence \in { 400000, 420001, 430001, 540000, 550000, 560000,
                          580001, 600001, 630000, 640000, 660000, 680000,
                          700001, 720001, 780000, 800000 } -> 1
      [] confidence = 439999 -> -1
      [] OTHER -> 0

\* heuristicConfidence * 0.9
DominanceThreshold(confidence) ==
    ((confidence + 1) \div 10000) * 9000 + MultiplicationError(confidence)

\* a merge that compares the confidences without the 0.9 margin
mergeFieldNoMargin(heuristic, llm) ==
    LET llmConfidence == ToNumber(llm.confidence)
    IN  IF /\ Truthy(llm.value)
           /\ llmConfidence # NaN
           /\ llmConfidence.v >= heuristic.confidence
        THEN [ value |-> llm.value,
               confidence |-> Max(0, Min(One, llmConfidence.v)),
               source |-> "llm",
               assumptions |-> IF llm.assumptions.t = "array"
                               THEN llm.assumptions.items ELSE <<>> ]
        ELSE heuristic

\* a merge that takes the model's confidence over as it is
mergeFieldUnclamped(heuristic, llm) ==
    LET llmConfidence == ToNumber(llm.confidence)
    IN  IF /\ Truthy(llm.value)
           /\ llmConfidence # NaN
           /\ llmConfidence.v >= DominanceThreshold(heuristic.confidence)
        THEN [ value |-> llm.value,
               confidence |-> llmConfidence.v,
               source |-> "llm",
               assumptions |-> IF llm.assumptions.t = "array"
                               THEN llm.assumptions.items ELSE <<>> ]
        ELSE heuristic

mergeField(heuristic, llm) ==
    LET heuristicConfidence == heuristic.confidence
        llmConfidence == ToNumber(llm.confidence)
        llmValue == llm.value
    IN  IF /\ Truthy(llmValue)
           /\ llmConfidence # NaN
           /\ llmConfidence.v >= DominanceThreshold(heuristicConfidence)
        THEN [ value |-> llmValue,
               confidence |-> Max(0, Min(One, llmConfidence.v)),
               source |-> "llm",
               assumptions |-> IF llm.assumptions.t = "array"
                               THEN llm.assumptions.items ELSE <<>> ]
        ELSE [ value |-> heuristic.value,
               confidence |-> Max(0, Min(One, heuristicConfidence)),
               source |-> "heuristic",
               assumptions |-> heuristic.assumptions ]

----------------------------------------------------------------------------
(* The resolver on its own: candidates are pushed onto one field's list in *)
(* transcript order (classifyFieldCandidates), then the field is resolved. *)

Idle == [ t |-> "none" ]

ResolverIdle == fieldKey = "objective" /\ values = <<>> /\ resolved = Idle
ArbiterIdle == heuristicField = Idle /\ llmField = Idle /\ merged = Idle
EngineIdle == finalFields = Idle /\ progress = Idle
ExtractorIdle ==
    /\ classified = Idle /\ normalizeWithModel = Idle /\ llmRaw = Idle
    /\ response = Idle /\ modelCalls = 0
ServerIdle == request = Idle /\ httpResponse = Idle
SessionIdle == written = Idle /\ storage = Idle /\ session = Idle
TextIdle == renderedText = Idle /\ userTurns = Idle
CallsIdle == extractions = Idle /\ registry = Idle
HookIdle == hook = Idle /\ fetching = Idle

InitResolve ==
    /\ pc = "classify"
    /\ fieldKey \in FieldKeys
    /\ values = <<>>
    /\ resolved = Idle
    /\ ArbiterIdle
    /\ EngineIdle
    /\ ExtractorIdle
    /\ ServerIdle
    /\ SessionIdle
    /\ TextIdle
    /\ CallsIdle
    /\ HookIdle

PushCandidate ==
    /\ pc = "classify"
    /\ Len(values) < MaxCandidates
    /\ \E value \in CandidateValues, flags \in CandidateFlags(fieldKey),
          sameTurn \in BOOLEAN :
          LET last == values[Len(values)]
              turnIndex == IF values = <<>> THEN 0
                           ELSE IF sameTurn THEN last.turnIndex
                           ELSE last.turnIndex + 1
              statementIndex == IF values # <<>> /\ sameTurn
                                THEN last.statementIndex + 1 ELSE 0
          IN  values' = Append(values,
                  Candidate(fieldKey, value, flags, turnIndex, statementIndex))
    /\ UNCHANGED <<pc, fieldKey, resolved, exceptResolver>>

ResolveField ==
    /\ pc = "classify"
    /\ resolved' = resolveField(fieldKey, values)
    /\ pc' = "resolved"
    /\ UNCHANGED <<fieldKey, values, exceptResolver>>

NextResolve == PushCandidate \/ ResolveField

SpecResolve == InitResolve /\ [][NextResolve]_vars

\* the candidate that every other candidate precedes in (turn, statement) order
LatestCandidate(entries) ==
    CHOOSE c \in { entries[i] : i \in DOMAIN entries } :
        \A i \in DOMAIN entries : entries[i] # c => Precedes(entries[i], c)

EarlierCandidates(entries) ==
    { entries[i] : i \in DOMAIN entries } \ { LatestCandidate(entries) }

WinnerIsNegatedBoundary(key, entries) ==
    LatestCandidate(entries).negated /\ key \in {"constraints", "nonGoals"}

EarlierValueDiffers(entries) ==
    \E c \in EarlierCandidates(entries) :
        ~c.negated /\ c.normalizedValue # LatestCandidate(entries).normalizedValue

ConflictRecorded(key, reason) ==
    /\ Len(resolved.conflicts) = 1
    /\ resolved.conflicts[1].field = key
    /\ resolved.conflicts[1].reason = reason

\* C4 as stated: the latest candidate wins, its text is the value unless it
\* is a negated constraints/nonGoals candidate, and an earlier non-negated
\* candidate with another normalized value always yields a conflict whose
\* reason is the "multiple competing values" text.
C4_AsStated ==
    (pc = "resolved" /\ values # <<>> /\ ~WinnerIsNegatedBoundary(fieldKey, values)) =>
        /\ resolved.field.value = LatestCandidate(values).value
        /\ EarlierValueDiffers(values) => ConflictRecorded(fieldKey, ReasonValues)

\* C4, amended: latest-turn-wins.  The latest candidate in (turn, statement)
\* order wins; unless it is a negated constraints/nonGoals candidate the
\* resolved value is its text, and an earlier non-negated candidate with
\* another normalized value yields one conflict for the field, whose reason
\* is the "multiple competing values" text when no candidate of the field is
\* negated and the "contradictory statements" text when one is.
C4_LatestTurnWins ==
    (pc = "resolved" /\ values # <<>> /\ ~WinnerIsNegatedBoundary(fieldKey, values)) =>
        /\ resolved.field.value = LatestCandidate(values).value
        /\ EarlierValueDiffers(values) =>
              ConflictRecorded(fieldKey,
                  IF \E i \in DOMAIN values : values[i].negated
                  THEN ReasonPolarity ELSE ReasonValues)

C4_Witness ==
    /\ pc = "resolved"
    /\ Len(values) >= 2
    /\ ~WinnerIsNegatedBoundary(fieldKey, values)
    /\ EarlierValueDiffers(values)
    /\ values[1].value # values[Len(values)].value
    /\ resolved.field.value = values[Len(values)].value
    /\ ConflictRecorded(fieldKey, ReasonValues)

\* C5: negation overrides.  For constraints and nonGoals, when the latest
\* candidate is negated the resolved value is absent and the assumptions
\* note the negation; an earlier non-negated candidate yields a conflict for
\* the field whose reason is the "contradictory statements" text.
C5_NegationOverrides ==
    (pc = "resolved" /\ values # <<>> /\ fieldKey \in {"constraints", "nonGoals"}
        /\ LatestCandidate(values).negated) =>
        /\ resolved.field.value = null
        /\ resolved.field.assumptions = <<NegatedByLatest>>
        /\ (\E c \in EarlierCandidates(values) : ~c.negated) =>
              ConflictRecorded(fieldKey, ReasonPolarity)

C5_Witness ==
    /\ pc = "resolved"
    /\ fieldKey = "nonGoals"
    /\ Len(values) >= 2
    /\ LatestCandidate(values).negated
    /\ \E c \in EarlierCandidates(values) : ~c.negated
    /\ resolved.field.value = null
    /\ ConflictRecorded(fieldKey, ReasonPolarity)

----------------------------------------------------------------------------
(* The arbiter on its own: a heuristic FieldResult, a model judgment, and  *)
(* their merge.                                                            *)

\* every FieldResult the resolver produces from at most two candidates
\* (every calibrated confidence, with and without a conflict)
HeuristicFieldResults ==
    UNION { { resolveField(key, <<>>).field }
            \cup { resolveField(key, << Candidate(key, v, f, 0, 0) >>).field :
                     v \in CandidateValues, f \in CandidateFlags(key) }
            \cup { resolveField(key, << Candidate(key, v1, f1, 0, 0),
                                        Candidate(key, v2, f2, 1, 0) >>).field :
                     v1 \in CandidateValues, v2 \in CandidateValues,
                     f1 \in CandidateFlags(key), f2 \in CandidateFlags(key) }
          : key \in FieldKeys }

LlmValues == { null, <<>>, << "Checklist" >> }

LlmConfidences ==
    { Undefined, StringValue } \cup
    { NumberValue(Hundredths(n)) : n \in {-20, 0, 36, 45, 50, 54, 60, 72, 150} }

LlmAssumptions ==
    { Undefined, ArrayValue(<<>>), ArrayValue(<< "Inferred by the model." >>) }

LlmFields ==
    [ value : LlmValues, confidence : LlmConfidences, assumptions : LlmAssumptions ]

InitMerge ==
    /\ pc = "heuristic"
    /\ heuristicField \in HeuristicFieldResults
    /\ llmField = Idle
    /\ merged = Idle
    /\ ResolverIdle
    /\ EngineIdle
    /\ ExtractorIdle
    /\ ServerIdle
    /\ SessionIdle
    /\ TextIdle
    /\ CallsIdle
    /\ HookIdle

\* the model's judgment of the field arrives
ModelJudges ==
    /\ pc = "heuristic"
    /\ llmField' \in LlmFields
    /\ pc' = "judged"
    /\ UNCHANGED <<heuristicField, merged, exceptArbiter>>

MergeField ==
    /\ pc = "judged"
    /\ merged' = mergeField(heuristicField, llmField)
    /\ pc' = "merged"
    /\ UNCHANGED <<heuristicField, llmField, exceptArbiter>>

NextMerge == ModelJudges \/ MergeField

SpecMerge == InitMerge /\ [][NextMerge]_vars

\* the model's value is non-empty and its confidence, as a number, is at
\* least heuristicConfidence * 0.9
ModelDominates ==
    /\ Truthy(llmField.value)
    /\ llmField.confidence.t \in {"number", "undefined"}
    /\ (IF llmField.confidence.t = "number" THEN llmField.confidence.v ELSE 0)
          >= DominanceThreshold(heuristicField.confidence)

----------------------------------------------------------------------------
(* Schema Registry, stages: brief-schema.js, lines 57-153 *)

\* a registry that names the context rule after its stage
ThresholdByStage(key, hundredths) ==
    [ fieldKey |-> IF key = "context" THEN "contextData" ELSE key,
      minConfidence |-> Hundredths(hundredths) ]

Threshold(key, hundredths) ==
    [ fieldKey |-> key, minConfidence |-> Hundredths(hundredths) ]

stageDefinitions ==
    << [ key |-> "objective", required |-> TRUE,
         completionRules |-> << [ allOf |-> << Threshold("objective", 45) >> ] >> ],
       [ key |-> "audience", required |-> TRUE,
         completionRules |-> << [ allOf |-> << Threshold("audience", 40) >> ] >> ],
       [ key |-> "contextData", required |-> TRUE,
         completionRules |-> << [ allOf |-> << Threshold("context", 40) >> ] >> ],
       [ key |-> "constraints", required |-> TRUE,
         completionRules |-> << [ anyOf |-> << Threshold("constraints", 40),
                                               Threshold("nonGoals", 35) >> ] >> ],
       [ key |-> "outputFormat", required |-> TRUE,
         completionRules |-> << [ anyOf |-> << Threshold("outputFormat", 40),
                                               Threshold("tone", 35) >> ] >> ],
       [ key |-> "qualityBar", required |-> FALSE,
         completionRules |-> << [ allOf |-> << Threshold("acceptanceCriteria", 35) >> ] >> ],
       [ key |-> "examples", required |-> FALSE,
         completionRules |-> << [ allOf |-> << Threshold("examples", 35) >> ] >> ] >>

----------------------------------------------------------------------------
(* Stage Rule Engine: index.js, lines 16-135 *)

STAGE_DEFINITIONS ==
    << [ key |-> "objective", required |-> TRUE ],
       [ key |-> "audience", required |-> TRUE ],
       [ key |-> "contextData", required |-> TRUE ],
       [ key |-> "constraints", required |-> TRUE ],
       [ key |-> "outputFormat", required |-> TRUE ],
       [ key |-> "qualityBar", required |-> FALSE ],
       [ key |-> "examples", required |-> FALSE ] >>

REQUIRED_STAGE_KEYS ==
    LET required == SelectSeq(STAGE_DEFINITIONS, LAMBDA stage : stage.required)
    IN  [ i \in DOMAIN required |-> required[i].key ]

MIN_COMPLETENESS_THRESHOLD == 720000

hasHighConfidence(fields, key, threshold) ==
    Truthy(fields[key].value) /\ fields[key].confidence >= threshold

\* a rule engine whose constraints stage ignores nonGoals
stageChecksWithoutNonGoals(fields, stageKey) ==
    CASE stageKey = "objective" -> hasHighConfidence(fields, "objective", Hundredths(45))
      [] stageKey = "audience" -> hasHighConfidence(fields, "audience", Hundredths(40))
      [] stageKey = "contextData" -> hasHighConfidence(fields, "context", Hundredths(40))
      [] stageKey = "constraints" -> hasHighConfidence(fields, "constraints", Hundredths(40))
      [] stageKey = "outputFormat" ->
           \/ hasHighConfidence(fields, "outputFormat", Hundredths(40))
           \/ hasHighConfidence(fields, "tone", Hundredths(35))
      [] stageKey = "qualityBar" ->
           hasHighConfidence(fields, "acceptanceCriteria", Hundredths(35))
      [] stageKey = "examples" -> hasHighConfidence(fields, "examples", Hundredths(35))

stageChecks(fields, stageKey) ==
    CASE stageKey = "objective" -> hasHighConfidence(fields, "objective", Hundredths(45))
      [] stageKey = "audience" -> hasHighConfidence(fields, "audience", Hundredths(40))
      [] stageKey = "contextData" -> hasHighConfidence(fields, "context", Hundredths(40))
      [] stageKey = "constraints" ->
           \/ hasHighConfidence(fields, "constraints", Hundredths(40))
           \/ hasHighConfidence(fields, "nonGoals", Hundredths(35))
      [] stageKey = "outputFormat" ->
           \/ hasHighConfidence(fields, "outputFormat", Hundredths(40))
           \/ hasHighConfidence(fields, "tone", Hundredths(35))
      [] stageKey = "qualityBar" ->
           hasHighConfidence(fields, "acceptanceCriteria", Hundredths(35))
      [] stageKey = "examples" -> hasHighConfidence(fields, "examples", Hundredths(35))

\* a gate that compares overallCompleteness with the threshold
\* (overall is the pair <<numerator, denominator>>)
canGenerateByOverall(requiredCompleteness, overallCompleteness) ==
    overallCompleteness[1] * One >= MIN_COMPLETENESS_THRESHOLD * overallCompleteness[2]

canGenerate(requiredCompleteness, overallCompleteness) ==
    requiredCompleteness >= MIN_COMPLETENESS_THRESHOLD

inspectConversationStages(fields) ==
    LET stages == [ i \in DOMAIN STAGE_DEFINITIONS |->
                      [ key |-> STAGE_DEFINITIONS[i].key,
                        required |-> STAGE_DEFINITIONS[i].required,
                        complete |-> stageChecks(fields, STAGE_DEFINITIONS[i].key) ] ]
        completedRequired ==
            Len(SelectSeq(stages, LAMBDA stage : stage.required /\ stage.complete))
        requiredTotal == Len(REQUIRED_STAGE_KEYS)
        optionalTotal == Len(stages) - requiredTotal
        completedOptional ==
            Len(SelectSeq(stages, LAMBDA stage : ~stage.required /\ stage.complete))
        \* completedRequired / requiredTotal, in millionths (exact for fifths)
        requiredCompleteness ==
            IF requiredTotal # 0 THEN (completedRequired * One) \div requiredTotal
            ELSE One
        \* (completedRequired + completedOptional * 0.5) /
        \* (requiredTotal + optionalTotal * 0.5), as <<numerator, denominator>>
        overallCompleteness ==
            << 2 * completedRequired + completedOptional,
               2 * requiredTotal + optionalTotal >>
        missing == SelectSeq(stages, LAMBDA stage : stage.required /\ ~stage.complete)
    IN  [ stages |-> stages,
          completedRequired |-> completedRequired,
          requiredTotal |-> requiredTotal,
          requiredCompleteness |-> requiredCompleteness,
          overallCompleteness |-> overallCompleteness,
          missingRequiredStageKeys |-> [ i \in DOMAIN missing |-> missing[i].key ],
          canGenerateFinalPrompt |-> canGenerate(requiredCompleteness, overallCompleteness) ]

----------------------------------------------------------------------------
(* The rule engine on its own: final FieldResults, then the inspection. *)

\* confidences of a final FieldResult that has a value, on either side of
\* the thresholds 0.35, 0.4 and 0.45 (objective, whose threshold is the
\* highest, gets 0.4 and 0.45)
StageConfidences(key) ==
    IF key = "objective" THEN { Hundredths(40), Hundredths(45) }
    ELSE { Hundredths(34), Hundredths(35), Hundredths(40) }

\* the resolver's results that carry no value: no evidence, and (on the two
\* negatable fields) a latest statement that negates the field
ValuelessFieldResults(key) ==
    { resolveField(key, <<>>).field }
    \cup { resolveField(key, << Candidate(key, << "FAQ" >>, flags, 0, 0) >>).field :
             flags \in { f \in CandidateFlags(key) : f.negated /\ f.explicit } }

StageFieldResults(key) ==
    ValuelessFieldResults(key)
    \cup { [ value |-> << "faq" >>, confidence |-> c, source |-> "llm",
             assumptions |-> <<>> ] : c \in StageConfidences(key) }

InitStage ==
    /\ pc = "extracted"
    /\ \E objective \in StageFieldResults("objective"),
          audience \in StageFieldResults("audience"),
          context \in StageFieldResults("context"),
          constraints \in StageFieldResults("constraints"),
          nonGoals \in StageFieldResults("nonGoals"),
          outputFormat \in StageFieldResults("outputFormat"),
          tone \in StageFieldResults("tone"),
          examples \in StageFieldResults("examples"),
          acceptanceCriteria \in StageFieldResults("acceptanceCriteria") :
          finalFields = [ objective |-> objective,
                          audience |-> audience,
                          context |-> context,
                          constraints |-> constraints,
                          nonGoals |-> nonGoals,
                          outputFormat |-> outputFormat,
                          tone |-> tone,
                          examples |-> examples,
                          acceptanceCriteria |-> acceptanceCriteria ]
    /\ progress = Idle
    /\ ResolverIdle
    /\ ArbiterIdle
    /\ ExtractorIdle
    /\ ServerIdle
    /\ SessionIdle
    /\ TextIdle
    /\ CallsIdle
    /\ HookIdle

InspectConversationStages ==
    /\ pc = "extracted"
    /\ progress' = inspectConversationStages(finalFields)
    /\ pc' = "inspected"
    /\ UNCHANGED <<finalFields, exceptEngine>>

NextStage == InspectConversationStages

SpecStage == InitStage /\ [][NextStage]_vars

\* evaluation of the registry's declarative completion rules
ThresholdMet(fields, threshold) ==
    /\ fields[threshold.fieldKey].value \notin { null, <<>> }
    /\ fields[threshold.fieldKey].confidence >= threshold.minConfidence

RuleSetHolds(fields, ruleSet) ==
    /\ "allOf" \in DOMAIN ruleSet =>
          \A i \in DOMAIN ruleSet.allOf : ThresholdMet(fields, ruleSet.allOf[i])
    /\ "anyOf" \in DOMAIN ruleSet =>
          \E i \in DOMAIN ruleSet.anyOf : ThresholdMet(fields, ruleSet.anyOf[i])

CompleteByRules(fields, stage) ==
    \E i \in DOMAIN stage.completionRules :
        RuleSetHolds(fields, stage.completionRules[i])

RequiredCompleteByRules(fields) ==
    Cardinality({ i \in DOMAIN stageDefinitions :
                    stageDefinitions[i].required
                    /\ CompleteByRules(fields, stageDefinitions[i]) })

OptionalCompleteByRules(fields) ==
    Cardinality({ i \in DOMAIN stageDefinitions :
                    ~stageDefinitions[i].required
                    /\ CompleteByRules(fields, stageDefinitions[i]) })

\* C6: gating.  canGenerateFinalPrompt is true iff completedRequired /
\* requiredTotal >= 0.72, whatever the optional stages are; there are 5
\* required stages, and it is false with 3 or fewer of them complete and
\* true with 4 or 5.
C6_Gating ==
    pc = "inspected" =>
        /\ progress.requiredTotal = 5
        /\ progress.completedRequired = RequiredCompleteByRules(finalFields)
        /\ progress.canGenerateFinalPrompt <=>
              100 * progress.completedRequired >= 72 * progress.requiredTotal
        /\ progress.completedRequired <= 3 => ~progress.canGenerateFinalPrompt
        /\ progress.completedRequired >= 4 => progress.canGenerateFinalPrompt

\* four required stages and no optional stage complete: the gate is open
C6_Witness ==
    /\ pc = "inspected"
    /\ RequiredCompleteByRules(finalFields) = 4
    /\ OptionalCompleteByRules(finalFields) = 0
    /\ progress.completedRequired = 4
    /\ progress.canGenerateFinalPrompt

\* C7: stage completion follows the declarative rules.  For every
\* assignment of final FieldResults, the complete flag of each of the seven
\* stages equals the evaluation of that stage's completionRules in the
\* registry.
C7_RulesDecideCompletion ==
    pc = "inspected" =>
        /\ Len(progress.stages) = 7
        /\ Len(stageDefinitions) = 7
        /\ \A i \in DOMAIN stageDefinitions :
              /\ progress.stages[i].key = stageDefinitions[i].key
              /\ progress.stages[i].required = stageDefinitions[i].required
              /\ progress.stages[i].complete <=>
                    CompleteByRules(finalFields, stageDefinitions[i])

\* the constraints stage is complete through nonGoals alone
C7_Witness ==
    /\ pc = "inspected"
    /\ ~ThresholdMet(finalFields, Threshold("constraints", 40))
    /\ ThresholdMet(finalFields, Threshold("nonGoals", 35))
    /\ finalFields["nonGoals"].confidence = Hundredths(35)
    /\ progress.stages[4].key = "constraints"
    /\ progress.stages[4].complete
    /\ ~progress.stages[1].complete

----------------------------------------------------------------------------
(* extractBrief: brief-extractor.js, lines 255-277 and 329-367 *)

MaxStatements == 2

\* JSON values of a model reply, besides Undefined, NumberValue,
\* StringValue and ArrayValue: null, and an object with its members
NullValue == [ t |-> "null" ]
ObjectValue(members) == [ t |-> "object", members |-> members ]

\* the pieces a reply text is made of: prose, a ``` code fence marker
\* (with or without the json tag), and the text of one JSON document
Prose == [ t |-> "prose" ]
Fence == [ t |-> "fence" ]
JsonText(value) == [ t |-> "json", document |-> value ]

\* indices of the first fence marker and of the next one after it
FenceOpen(text) ==
    IF \E i \in DOMAIN text : text[i] = Fence
    THEN CHOOSE i \in DOMAIN text :
            text[i] = Fence /\ \A j \in 1..(i - 1) : text[j] # Fence
    ELSE 0

FenceClose(text) ==
    IF FenceOpen(text) # 0 /\ \E i \in DOMAIN text : i > FenceOpen(text) /\ text[i] = Fence
    THEN CHOOSE i \in DOMAIN text :
            /\ i > FenceOpen(text) /\ text[i] = Fence
            /\ \A j \in (FenceOpen(text) + 1)..(i - 1) : text[j] # Fence
    ELSE 0

stripJsonCodeFence(text) ==
    IF FenceClose(text) # 0
    THEN SubSeq(text, FenceOpen(text) + 1, FenceClose(text) - 1)
    ELSE text

\* JSON.parse succeeds on the text of exactly one JSON document; every
\* failure, like the document null, comes out as null
parseNormalizerResponse(rawResponse) ==
    IF rawResponse = <<>> THEN NullValue
    ELSE LET candidate == stripJsonCodeFence(rawResponse)
         IN  IF Len(candidate) = 1 /\ candidate[1].t = "json"
             THEN candidate[1].document
             ELSE NullValue

\* !parsed || typeof parsed !== 'object'
IsFalsy(parsed) ==
    \/ parsed.t \in {"null", "undefined", "NaN"}
    \/ parsed.t = "number" /\ parsed.v = 0

IsObject(parsed) == parsed.t \in {"object", "array"}

\* parsed?.member
Member(parsed, name) ==
    IF parsed.t = "object" /\ name \in DOMAIN parsed.members THEN parsed.members[name]
    ELSE Undefined

\* mergeField's view of an llmField that is undefined
UndefinedField ==
    [ value |-> null, confidence |-> Undefined, assumptions |-> Undefined ]

\* parsed?.fields?.[key]
llmFieldOf(parsed, key) ==
    LET fields == Member(parsed, "fields")
    IN  IF fields.t = "object" /\ key \in DOMAIN fields.members THEN fields.members[key]
        ELSE UndefinedField

extractHeuristicBrief(classifiedByField) == resolveFieldConflicts(classifiedByField)

\* the response object built before the model is consulted
heuristicResponse(heuristic) ==
    [ fields |-> [ key \in FieldKeys |-> heuristic.fields[key] ],
      brief |-> [ key \in FieldKeys |-> heuristic.fields[key].value ],
      unresolvedConflicts |-> heuristic.unresolvedConflicts,
      globalAssumptions |-> <<>>,
      normalizationMethod |-> "heuristic_fallback" ]

\* an arbitration whose loop leaves response.brief as it was
arbitrateFieldsOnly(heuristic, built, parsed) ==
    IF IsFalsy(parsed) \/ ~IsObject(parsed) THEN built
    ELSE [ fields |-> [ key \in FieldKeys |->
                          mergeField(heuristic.fields[key], llmFieldOf(parsed, key)) ],
           brief |-> built.brief,
           unresolvedConflicts |->
               heuristic.unresolvedConflicts
               \o (IF Member(parsed, "unresolvedConflicts").t = "array"
                   THEN Member(parsed, "unresolvedConflicts").items ELSE <<>>),
           globalAssumptions |->
               IF Member(parsed, "globalAssumptions").t = "array"
               THEN Member(parsed, "globalAssumptions").items ELSE <<>>,
           normalizationMethod |-> "llm_assisted" ]

\* lines 348-363: what the try block returns once the reply is parsed
arbitrate(heuristic, built, parsed) ==
    IF IsFalsy(parsed) \/ ~IsObject(parsed) THEN built
    ELSE LET fields == [ key \in FieldKeys |->
                           mergeField(heuristic.fields[key], llmFieldOf(parsed, key)) ]
         IN  [ fields |-> fields,
               brief |-> [ key \in FieldKeys |-> fields[key].value ],
               unresolvedConflicts |->
                   heuristic.unresolvedConflicts
                   \o (IF Member(parsed, "unresolvedConflicts").t = "array"
                       THEN Member(parsed, "unresolvedConflicts").items ELSE <<>>),
               globalAssumptions |->
                   IF Member(parsed, "globalAssumptions").t = "array"
                   THEN Member(parsed, "globalAssumptions").items ELSE <<>>,
               normalizationMethod |-> "llm_assisted" ]

\* an extractBrief that asks the model again, once, after a reply it cannot
\* use
retryAfterReply(parsed, calls) ==
    IF (IsFalsy(parsed) \/ ~IsObject(parsed)) /\ calls < 2
    THEN [ pc |-> "awaiting", modelCalls |-> calls + 1 ]
    ELSE [ pc |-> "returned", modelCalls |-> calls ]

\* lines 347-363: whatever the reply, the try block returns; the capability
\* is not invoked again
afterReply(parsed, calls) == [ pc |-> "returned", modelCalls |-> calls ]

\* an extractBrief without the catch: the failure reaches the caller
rethrowModelFailure(built) == [ t |-> "error" ]

\* lines 364-366: catch { return response }
catchModelFailure(built) == built

----------------------------------------------------------------------------
(* The extraction life cycle: the user's statements are classified, the    *)
(* heuristic response is built, and when a capability was injected the     *)
(* call awaits the model, which replies or fails.                          *)

\* what classifyFieldCandidates pushes for one statement of the transcript:
\* a labelled statement carries the text after the label, any other one
\* its whole text
StatementValue(flags) ==
    IF flags.explicit THEN << "FAQ" >> ELSE << "Draft", " ", "Memo" >>

EmptyByField == [ key \in FieldKeys |-> <<>> ]

StatementCount(byField) ==
    LET RECURSIVE Sum(_)
        Sum(i) == IF i > Len(briefFieldKeys) THEN 0
                  ELSE Len(byField[briefFieldKeys[i]]) + Sum(i + 1)
    IN  Sum(1)

pushCandidate(byField, key, flags) ==
    [ byField EXCEPT ![key] =
        Append(@, Candidate(key, StatementValue(flags), flags,
                            StatementCount(byField), 0)) ]

\* the model's judgments of single fields
Unknown == [ value |-> null, confidence |-> NumberValue(0),
             assumptions |-> ArrayValue(<< "Not stated." >>) ]
Judged(hundredths) ==
    [ value |-> << "Checklist" >>, confidence |-> NumberValue(Hundredths(hundredths)),
      assumptions |-> ArrayValue(<<>>) ]

\* a judgment whose confidence is missing, not a number, or negative
JudgedWith(confidence) ==
    [ value |-> << "Checklist" >>, confidence |-> confidence,
      assumptions |-> ArrayValue(<<>>) ]

\* the fields member of a reply object: missing, not an object, empty, one
\* judged field, or a judgment of every field
ReplyFields ==
    { Undefined, NumberValue(5), ObjectValue(<<>>) }
    \cup { ObjectValue([ key \in {only} |-> judgment ]) :
             only \in {"objective", "constraints"},
             judgment \in { Unknown, Judged(40), Judged(150) } }
    \cup { ObjectValue([ key \in {"objective"} |-> JudgedWith(confidence) ]) :
             confidence \in { Undefined, StringValue, NumberValue(Hundredths(-20)) } }
    \cup { ObjectValue([ key \in FieldKeys |-> judgment ]) :
             judgment \in { Unknown, Judged(86) } }

ModelConflict ==
    [ field |-> "tone", reason |-> "Tone is stated twice.",
      candidates |-> << << "formal" >>, << "casual" >> >> ]

\* the unresolvedConflicts and globalAssumptions members of a reply object
ReplyLists ==
    { << Undefined, Undefined >>,
      << StringValue, StringValue >>,
      << ArrayValue(<< ModelConflict >>), ArrayValue(<< "No examples supplied." >>) >> }

ReplyObject(fields, lists) ==
    LET members == [ name \in {"fields", "unresolvedConflicts", "globalAssumptions"} |->
                       CASE name = "fields" -> fields
                         [] name = "unresolvedConflicts" -> lists[1]
                         [] name = "globalAssumptions" -> lists[2] ]
        present == { name \in DOMAIN members : members[name] # Undefined }
    IN  ObjectValue([ name \in present |-> members[name] ])

\* every fields member with well-formed lists, and every pair of lists
\* with the fields member missing and with an empty one
ReplyDocuments ==
    { NullValue, NumberValue(0), NumberValue(5), StringValue, ArrayValue(<<>>) }
    \cup { ReplyObject(fields, << ArrayValue(<<>>), ArrayValue(<<>>) >>) :
             fields \in ReplyFields }
    \cup { ReplyObject(fields, lists) :
             fields \in { Undefined, ObjectValue(<<>>) }, lists \in ReplyLists }

FullReply == ReplyObject(ObjectValue([ key \in FieldKeys |-> Judged(86) ]),
                         << ArrayValue(<< ModelConflict >>),
                            ArrayValue(<< "No examples supplied." >>) >>)

\* what the awaited call can resolve to
Replies ==
    { <<>>, << Prose >> }
    \cup { << JsonText(document) >> : document \in ReplyDocuments }
    \cup { << Fence, JsonText(FullReply), Fence >>,
           << Prose, Fence, JsonText(FullReply), Fence, Prose >>,
           << Prose, JsonText(FullReply) >>,
           << Fence, JsonText(FullReply) >>,
           << Fence, Prose, Fence >> }

\* how the awaited call settled
Resolved(raw) == [ t |-> "resolved", text |-> raw ]
Rejected == [ t |-> "rejected" ]

Init ==
    /\ pc = "transcript"
    /\ classified = EmptyByField
    /\ normalizeWithModel \in { "undefined", "function" }
    /\ llmRaw = Idle
    /\ response = Idle
    /\ modelCalls = 0
    /\ ResolverIdle
    /\ ArbiterIdle
    /\ EngineIdle
    /\ ServerIdle
    /\ SessionIdle
    /\ TextIdle
    /\ CallsIdle
    /\ HookIdle

\* one more statement of the user is part of the transcript
ClassifyStatement ==
    /\ pc = "transcript"
    /\ StatementCount(classified) < MaxStatements
    /\ \E key \in FieldKeys : \E flags \in CandidateFlags(key) :
          classified' = pushCandidate(classified, key, flags)
    /\ UNCHANGED <<pc, normalizeWithModel, llmRaw, response, modelCalls, exceptExtractor>>

\* extractBrief up to its return without a capability, or up to the await
ExtractHeuristic ==
    /\ pc = "transcript"
    /\ response' = heuristicResponse(extractHeuristicBrief(classified))
    /\ pc' = IF normalizeWithModel # "function" THEN "returned" ELSE "awaiting"
    /\ modelCalls' = IF normalizeWithModel # "function" THEN modelCalls
                     ELSE modelCalls + 1
    /\ UNCHANGED <<classified, normalizeWithModel, llmRaw, exceptExtractor>>

\* the awaited call resolves; the try block runs to its return
ModelReplies ==
    /\ pc = "awaiting"
    /\ \E raw \in Replies :
          /\ llmRaw' = Resolved(raw)
          /\ response' = arbitrate(extractHeuristicBrief(classified), response,
                                   parseNormalizerResponse(raw))
          /\ pc' = afterReply(parseNormalizerResponse(raw), modelCalls).pc
          /\ modelCalls' = afterReply(parseNormalizerResponse(raw), modelCalls).modelCalls
    /\ UNCHANGED <<classified, normalizeWithModel, exceptExtractor>>

\* the awaited call rejects; the catch block returns
ModelFails ==
    /\ pc = "awaiting"
    /\ llmRaw' = Rejected
    /\ response' = catchModelFailure(response)
    /\ pc' = "returned"
    /\ UNCHANGED <<classified, normalizeWithModel, modelCalls, exceptExtractor>>

Next == ClassifyStatement \/ ExtractHeuristic \/ ModelReplies \/ ModelFails

Spec == Init /\ [][Next]_vars

\* the reply is JSON text of an object {fields, unresolvedConflicts,
\* globalAssumptions} with an object and two lists
HasExpectedShape(raw) ==
    LET parsed == parseNormalizerResponse(raw)
    IN  /\ parsed.t = "object"
        /\ Member(parsed, "fields").t = "object"
        /\ Member(parsed, "unresolvedConflicts").t = "array"
        /\ Member(parsed, "globalAssumptions").t = "array"

HeuristicOnly == heuristicResponse(extractHeuristicBrief(classified))

\* C2: fallback tagging.  The response is tagged heuristic_fallback, with
\* every field the unmodified heuristic FieldResult and no model-supplied
\* conflicts or global assumptions, whenever no capability is supplied or
\* the reply cannot be parsed into the expected shape (non-JSON, or JSON of
\* the wrong shape); it is tagged as model-assisted only in the remaining
\* case.
C2_AsStated ==
    pc = "returned" =>
        IF \/ normalizeWithModel # "function"
           \/ llmRaw = Rejected
           \/ ~HasExpectedShape(llmRaw.text)
        THEN response = HeuristicOnly
        ELSE response.normalizationMethod = "llm_assisted"

\* C3: a failed model call.  When the injected call throws or rejects,
\* extractBrief does not propagate the error; it returns the complete
\* heuristic-only result tagged heuristic_fallback, the result of the same
\* call made without a capability.
C3_FailureFallsBack ==
    pc = "returned" /\ llmRaw = Rejected =>
        /\ response # [ t |-> "error" ]
        /\ response.normalizationMethod = "heuristic_fallback"
        /\ response = HeuristicOnly
        /\ response.globalAssumptions = <<>>
        /\ \A key \in FieldKeys : response.fields[key].source = "heuristic"

\* the call failed on a transcript with evidence and a recorded conflict
C3_Witness ==
    /\ pc = "returned"
    /\ llmRaw = Rejected
    /\ normalizeWithModel = "function"
    /\ response.brief["constraints"] # null
    /\ response.unresolvedConflicts # <<>>

\* C10: total brief.  In every result of extractBrief (heuristic-only,
\* model-assisted, after a model failure), fields and brief each contain
\* exactly the nine FieldKeys, with one FieldResult per key, and brief[k]
\* equals fields[k].value for every key k.
C10_TotalBrief ==
    pc = "returned" =>
        /\ Cardinality(FieldKeys) = 9
        /\ DOMAIN response.fields = FieldKeys
        /\ DOMAIN response.brief = FieldKeys
        /\ \A key \in FieldKeys :
              /\ DOMAIN response.fields[key] =
                    {"value", "confidence", "source", "assumptions"}
              /\ response.brief[key] = response.fields[key].value

\* a model-assisted result in which one field is the model's and another
\* keeps its heuristic value
C10_Witness ==
    /\ pc = "returned"
    /\ response.normalizationMethod = "llm_assisted"
    /\ response.fields["objective"].source = "llm"
    /\ response.brief["objective"] = << "Checklist" >>
    /\ response.fields["audience"].source = "heuristic"
    /\ response.brief["audience"] = << "FAQ" >>

----------------------------------------------------------------------------
(* brief-service.js (buildNormalizedBrief) and the HTTP handlers of        *)
(* index.js, lines 137-306                                                 *)

MaxMessages == 2

\* A string of a request is represented by what the pipeline finds in it:
\* whether it trims to the empty string, and the detections (field and
\* flags) of its statements in order.  It carries no role marker.
TextOf(blank, detections) ==
    [ t |-> "string", blank |-> blank, statements |-> detections ]

Blank == TextOf(TRUE, <<>>)
SmallTalk == TextOf(FALSE, <<>>)
Says(key, flags) == TextOf(FALSE, << [ key |-> key, flags |-> flags ] >>)

Labelled == [ explicit |-> TRUE, implicit |-> FALSE, negated |-> FALSE ]

Role(name) == [ t |-> "string", name |-> name ]

Message(role, content) == [ t |-> "object", role |-> role, content |-> content ]

\* normalizeHistoryInput, lines 22-31
IsMessageObject(message) ==
    /\ message.t = "object"
    /\ message.role.t = "string"
    /\ message.content.t = "string"

normalizeHistoryInput(transcript, messages) ==
    LET hasMessageObjects ==
            /\ messages.t = "array"
            /\ \A i \in DOMAIN messages.items : IsMessageObject(messages.items[i])
        messageHistory ==
            IF hasMessageObjects THEN messages.items
            ELSE IF ~transcript.blank
                 THEN << Message(Role("user"), transcript) >>
                 ELSE <<>>
    IN  [ messageHistory |-> messageHistory,
          \* transcript.trim() || the rendered message history
          transcriptText |->
              IF ~transcript.blank THEN [ t |-> "transcript", text |-> transcript ]
              ELSE [ t |-> "rendered", messages |-> messageHistory ],
          hasMessageObjects |-> hasMessageObjects ]

\* segmentTurns on a transcript text.  A text without role markers is one
\* implicit user turn; in a rendered history every line 'user: ...' or
\* 'assistant: ...' starts a turn, turns with empty content are omitted, and
\* only the user turns are kept.  (A line of any other role is a statement
\* '<role>: ...' whose label no alias matches, which detectField drops.)
segmentTurns(transcriptText) ==
    IF transcriptText.t = "transcript"
    THEN << transcriptText.text >>
    ELSE LET kept == SelectSeq(transcriptText.messages,
                         LAMBDA message : /\ message.role.name = "user"
                                          /\ ~message.content.blank)
         IN  [ i \in DOMAIN kept |-> kept[i].content ]

\* extractCandidatesFromTurns and classifyFieldCandidates
RECURSIVE classifyTurns(_, _, _)
classifyTurns(turns, turnIndex, byField) ==
    IF turnIndex > Len(turns) THEN byField
    ELSE LET RECURSIVE classifyStatements(_, _)
             classifyStatements(statementIndex, acc) ==
                 IF statementIndex > Len(turns[turnIndex].statements) THEN acc
                 ELSE LET detection == turns[turnIndex].statements[statementIndex]
                      IN  classifyStatements(statementIndex + 1,
                            [ acc EXCEPT ![detection.key] =
                                Append(@, Candidate(detection.key,
                                                    StatementValue(detection.flags),
                                                    detection.flags,
                                                    turnIndex - 1,
                                                    statementIndex - 1)) ])
         IN  classifyTurns(turns, turnIndex + 1, classifyStatements(1, byField))

classifyFieldCandidates(transcriptText) ==
    classifyTurns(segmentTurns(transcriptText), 1, EmptyByField)

\* Number(x.toFixed(3)) of numerator / denominator, in millionths
toFixed3(numerator, denominator) ==
    ((2000 * numerator + denominator) \div (2 * denominator)) * 1000

missingRequiredStages(stageProgress) ==
    SelectSeq(stageProgress.stages, LAMBDA stage : stage.required /\ ~stage.complete)

buildStageDiagnostics(stageProgress) ==
    [ requiredCompleteness |-> toFixed3(stageProgress.requiredCompleteness, One),
      overallCompleteness |-> toFixed3(stageProgress.overallCompleteness[1],
                                       stageProgress.overallCompleteness[2]),
      completedRequired |-> stageProgress.completedRequired,
      requiredTotal |-> stageProgress.requiredTotal,
      missingRequiredStageKeys |->
          [ i \in DOMAIN missingRequiredStages(stageProgress) |->
              missingRequiredStages(stageProgress)[i].key ],
      missingRequiredItems |->
          [ i \in DOMAIN missingRequiredStages(stageProgress) |->
              [ key |-> missingRequiredStages(stageProgress)[i].key ] ] ]

buildStageProgressPayload(stageProgress) ==
    [ minCompletenessThreshold |-> MIN_COMPLETENESS_THRESHOLD,
      canGenerateFinalPrompt |-> stageProgress.canGenerateFinalPrompt,
      requiredCompleteness |-> toFixed3(stageProgress.requiredCompleteness, One),
      overallCompleteness |-> toFixed3(stageProgress.overallCompleteness[1],
                                       stageProgress.overallCompleteness[2]),
      completedRequired |-> stageProgress.completedRequired,
      requiredTotal |-> stageProgress.requiredTotal,
      missingRequiredStageKeys |-> stageProgress.missingRequiredStageKeys,
      stages |-> stageProgress.stages ]

InvalidMessages ==
    "Invalid payload: \"messages\" must be an array of { role, content } objects."
NoUserMessage ==
    "Invalid payload: provide at least one non-empty user message in \"messages\" or \"transcript\"."

\* res.status(status).json(body)
Sent(status, body) == [ status |-> status, body |-> body ]

\* lines 255-257
hasBasicIntent(messageHistory) ==
    \E i \in DOMAIN messageHistory :
        /\ messageHistory[i].role.name = "user"
        /\ ~messageHistory[i].content.blank

----------------------------------------------------------------------------
(* The server: a request arrives, the handler validates it (generate-     *)
(* prompt only), extracts the brief with callGroq as the model capability, *)
(* inspects the stages and asks callGroq for the reply or the prompt.      *)

Contents == { Blank, SmallTalk, Says("objective", Labelled), Says("audience", Labelled) }

\* elements of a messages array: a number, messages of the three roles,
\* and objects whose role or content is not a string
Elements ==
    { NumberValue(42) }
    \cup { Message(Role(name), content) :
             name \in {"user", "assistant", "system"}, content \in Contents }
    \cup { Message(NumberValue(7), SmallTalk), Message(Role("user"), NumberValue(7)) }

RECURSIVE SeqsUpTo(_, _)
SeqsUpTo(S, n) ==
    IF n = 0 THEN { <<>> }
    ELSE SeqsUpTo(S, n - 1)
         \cup { Append(seq, x) : seq \in { q \in SeqsUpTo(S, n - 1) : Len(q) = n - 1 },
                                 x \in S }

Requests ==
    [ endpoint : { "/api/chat", "/api/generate-prompt" },
      transcript : { Blank, Says("constraints", Labelled) },
      messages : { Undefined } \cup { ArrayValue(items) : items \in SeqsUpTo(Elements, MaxMessages) } ]

\* a reply that judges objective and audience only
PartialReply ==
    ReplyObject(ObjectValue([ key \in {"objective", "audience", "context"} |->
                                IF key = "context" THEN Unknown ELSE Judged(86) ]),
                << ArrayValue(<<>>), ArrayValue(<< "No examples supplied." >>) >>)

\* what callGroq resolves to when asked to normalize
NormalizerReplies == { << Prose >>, << JsonText(PartialReply) >>, << JsonText(FullReply) >> }

\* the part of both handlers from buildNormalizedBrief to the await of the
\* normalizer call: the heuristic response of extractBrief
beginExtraction(transcript, messages) ==
    LET byField == classifyFieldCandidates(
                       normalizeHistoryInput(transcript, messages).transcriptText)
    IN  /\ classified' = byField
        /\ response' = heuristicResponse(extractHeuristicBrief(byField))
        /\ normalizeWithModel' = "function"
        /\ modelCalls' = modelCalls + 1
        /\ pc' = "normalizing"
        /\ UNCHANGED <<llmRaw, httpResponse>>

respond(status, body) ==
    /\ httpResponse' = Sent(status, body)
    /\ pc' = "responded"

InitHttp ==
    /\ pc = "received"
    /\ request \in Requests
    /\ httpResponse = Idle
    /\ ResolverIdle
    /\ ArbiterIdle
    /\ EngineIdle
    /\ ExtractorIdle
    /\ SessionIdle
    /\ TextIdle
    /\ CallsIdle
    /\ HookIdle

\* POST /api/chat up to the normalizer call; the handler reads messages only
HandleChat ==
    /\ pc = "received"
    /\ request.endpoint = "/api/chat"
    /\ beginExtraction(Blank,
                       IF request.messages = Undefined THEN ArrayValue(<<>>)
                       ELSE request.messages)
    /\ UNCHANGED <<request, resolverVars, arbiterVars, engineVars, sessionVars,
                   textVars, callVars, hookVars>>

\* POST /api/generate-prompt up to a 400 or to the normalizer call
HandleGeneratePrompt ==
    /\ pc = "received"
    /\ request.endpoint = "/api/generate-prompt"
    /\ LET history == normalizeHistoryInput(request.transcript, request.messages)
       IN  IF request.messages.t = "array" /\ ~history.hasMessageObjects
           THEN /\ respond(400, [ error |-> InvalidMessages ])
                /\ UNCHANGED extractorVars
           ELSE IF ~hasBasicIntent(history.messageHistory)
           THEN /\ respond(400, [ error |-> NoUserMessage, stageProgress |-> null ])
                /\ UNCHANGED extractorVars
           ELSE beginExtraction(IF history.transcriptText.t = "transcript"
                                THEN history.transcriptText.text ELSE Blank,
                                ArrayValue(history.messageHistory))
    /\ UNCHANGED <<request, resolverVars, arbiterVars, engineVars, sessionVars,
                   textVars, callVars, hookVars>>

\* the normalizer call resolves: extractBrief returns, the stages are
\* inspected and the handler awaits the second callGroq
NormalizerResolves ==
    /\ pc = "normalizing"
    /\ \E raw \in NormalizerReplies :
          /\ llmRaw' = Resolved(raw)
          /\ response' = arbitrate(extractHeuristicBrief(classified), response,
                                   parseNormalizerResponse(raw))
    /\ progress' = inspectConversationStages(response'.fields)
    /\ pc' = "generating"
    /\ UNCHANGED <<classified, normalizeWithModel, modelCalls, finalFields,
                   serverVars, resolverVars, arbiterVars, sessionVars,
                   textVars, callVars, hookVars>>

\* the normalizer call rejects: extractBrief returns the heuristic response
NormalizerFails ==
    /\ pc = "normalizing"
    /\ llmRaw' = Rejected
    /\ response' = catchModelFailure(response)
    /\ progress' = inspectConversationStages(response'.fields)
    /\ pc' = "generating"
    /\ UNCHANGED <<classified, normalizeWithModel, modelCalls, finalFields,
                   serverVars, resolverVars, arbiterVars, sessionVars,
                   textVars, callVars, hookVars>>

\* the second callGroq resolves: res.json(...)
GroqReplies ==
    /\ pc = "generating"
    /\ IF request.endpoint = "/api/chat"
       THEN respond(200, [ reply |-> << "Draft", " ", "Memo" >>,
                           stageProgress |-> buildStageProgressPayload(progress),
                           brief |-> response ])
       ELSE respond(200, [ brief |-> response,
                           prompt |-> << "Draft", " ", "Memo" >>,
                           stageProgress |-> buildStageProgressPayload(progress) ])
    /\ UNCHANGED <<request, resolverVars, arbiterVars, engineVars, extractorVars,
                   sessionVars, textVars, callVars, hookVars>>

\* the second callGroq rejects: the handler's catch
GroqFails ==
    /\ pc = "generating"
    /\ respond(500, [ error |-> "Groq API error" ])
    /\ UNCHANGED <<request, resolverVars, arbiterVars, engineVars, extractorVars,
                   sessionVars, textVars, callVars, hookVars>>

NextHttp ==
    \/ HandleChat
    \/ HandleGeneratePrompt
    \/ NormalizerResolves
    \/ NormalizerFails
    \/ GroqReplies
    \/ GroqFails

SpecHttp == InitHttp /\ [][NextHttp]_vars

\* a well-formed {role, content} pair with role user or assistant
IsWellFormedPair(element) ==
    /\ IsMessageObject(element)
    /\ element.role.name \in {"user", "assistant"}

\* C8: invalid input shape is rejected, not guessed.  Whenever a message
\* list is provided and some element is not a well-formed {role, content}
\* pair with role user or assistant, the caller receives an explicit
\* validation failure and no extraction work is performed, at POST /api/chat
\* as at POST /api/generate-prompt.
C8_AsStated ==
    ( /\ pc \in {"normalizing", "generating", "responded"}
      /\ request.messages.t = "array"
      /\ \E i \in DOMAIN request.messages.items :
            ~IsWellFormedPair(request.messages.items[i]) )
    => /\ response = Idle
       /\ llmRaw = Idle
       /\ pc = "responded"
       /\ httpResponse.status = 400

\* C9: the generation gate.  POST /api/generate-prompt, for a structurally
\* valid request whose calls to the model service succeed: when the
\* evaluated stage progress has canGenerateFinalPrompt = false it responds
\* 400 with an error, stageProgress (canGenerateFinalPrompt = false) and a
\* non-empty missingRequiredItems list, and produces no prompt; when
\* canGenerateFinalPrompt = true it responds 200 with the prompt, the brief
\* and stageProgress (requiredTotal = 5, 7 stages).
C9_AsStated ==
    ( /\ pc = "responded"
      /\ request.endpoint = "/api/generate-prompt"
      /\ progress # Idle
      /\ httpResponse.status # 500 )
    => IF ~progress.canGenerateFinalPrompt
       THEN /\ httpResponse.status = 400
            /\ "prompt" \notin DOMAIN httpResponse.body
            /\ "error" \in DOMAIN httpResponse.body
            /\ "stageProgress" \in DOMAIN httpResponse.body
            /\ "missingRequiredItems" \in DOMAIN httpResponse.body
            /\ httpResponse.body.missingRequiredItems # <<>>
       ELSE /\ httpResponse.status = 200
            /\ DOMAIN httpResponse.body = {"brief", "prompt", "stageProgress"}
            /\ httpResponse.body.brief = response
            /\ httpResponse.body.stageProgress.canGenerateFinalPrompt
            /\ httpResponse.body.stageProgress.requiredTotal = 5
            /\ Len(httpResponse.body.stageProgress.stages) = 7

\* what the model said about `key` in the reply that was delivered
JudgmentOf(key) == llmFieldOf(parseNormalizerResponse(llmRaw.text), key)

\* C11: bounded confidence.  Every FieldResult returned by extractBrief has
\* a confidence within [0,1], for every transcript and every model reply,
\* also when the model's confidence is negative, greater than 1, missing
\* or not a number.
C11_ConfidenceBounded ==
    pc = "returned" =>
        \A key \in FieldKeys :
            /\ response.fields[key].confidence >= 0
            /\ response.fields[key].confidence <= One

\* the model's confidence of 1.5 was adopted and came out as 1
C11_Witness ==
    /\ pc = "returned"
    /\ llmRaw.t = "resolved"
    /\ JudgmentOf("objective").confidence = NumberValue(Hundredths(150))
    /\ response.fields["objective"].source = "llm"
    /\ response.fields["objective"].confidence = One
    /\ classified["objective"] # <<>>

\* the FieldResult of a field without evidence
NoEvidenceResult ==
    [ value |-> null, confidence |-> 0, source |-> "heuristic",
      assumptions |-> << NoEvidence >> ]

\* C12 in the full extraction: whenever no statement of the transcript yields a
\* candidate, every FieldResult extractBrief returns has value absent,
\* confidence 0, source heuristic and the single no-evidence assumption,
\* and no UnresolvedConflict is recorded.
C12_AsStated ==
    pc = "returned" /\ classified = EmptyByField =>
        /\ \A key \in FieldKeys : response.fields[key] = NoEvidenceResult
        /\ response.unresolvedConflicts = <<>>

SpecLive == Init /\ [][Next]_vars /\ WF_vars(ExtractHeuristic)

\* C14: no indefinite blocking.  extractBrief never blocks indefinitely on
\* the injected model call: also when the call is cancelled, times out or
\* otherwise delivers no reply, extractBrief eventually returns (with the
\* heuristic fallback).
C14_AsStated == (pc = "awaiting") ~> (pc = "returned")

\* the rules of a RuleSet: [...(ruleSet.allOf || []), ...(ruleSet.anyOf || [])]
RulesOf(ruleSet) ==
    (IF "allOf" \in DOMAIN ruleSet THEN ruleSet.allOf ELSE <<>>)
    \o (IF "anyOf" \in DOMAIN ruleSet THEN ruleSet.anyOf ELSE <<>>)

\* the fieldKeys the completionRules of a stage refer to
ReferencedFieldKeys(stage) ==
    UNION { { RulesOf(stage.completionRules[r])[i].fieldKey :
                i \in DOMAIN RulesOf(stage.completionRules[r]) } :
            r \in DOMAIN stage.completionRules }

\* C17: schema consistency.  Every fieldKey referenced in allOf or anyOf of
\* any RuleSet in the completionRules of any stage, required or optional,
\* is one of briefFieldKeys.
C17_SchemaConsistency ==
    /\ FieldKeys = { briefFieldKeys[i] : i \in DOMAIN briefFieldKeys }
    /\ \A s \in DOMAIN stageDefinitions :
          /\ ReferencedFieldKeys(stageDefinitions[s]) # {}
          /\ ReferencedFieldKeys(stageDefinitions[s]) \subseteq FieldKeys
    /\ pc = "inspected" => DOMAIN finalFields = FieldKeys

\* the context rule of the contextData stage is evaluated against the
\* context field and decides the stage
C17_Witness ==
    /\ pc = "inspected"
    /\ ReferencedFieldKeys(stageDefinitions[3]) = {"context"}
    /\ finalFields["context"].confidence = Hundredths(40)
    /\ CompleteByRules(finalFields, stageDefinitions[3])
    /\ progress.stages[3].complete

\* ---------------------------------------------------------------------
\* Session utilities (src/utils/session.js): the chat history is saved to
\* localStorage as JSON text and read back when the page loads.
\*
\* JSON text is a sequence of tokens; a JSON value is a tagged record.
\* JSON.stringify and JSON.parse are modelled by what they do: the first
\* writes the tokens of a value, the second is a recursive-descent parser
\* over tokens that accepts a text only when it consumes all of it.
\* ---------------------------------------------------------------------

MaxStoredMessages == 2

\* a string with its characters
StringOf(s) == [ t |-> "string", s |-> s ]

Punct(c)  == [ k |-> "punct", c |-> c ]
StrTok(s) == [ k |-> "string", s |-> s ]
NumTok(n) == [ k |-> "number", n |-> n ]
Lit(w)    == [ k |-> "literal", w |-> w ]

\* the order in which the members of the objects of this model were created
MemberOrder == << "savedAt", "messages", "role", "content", "foo" >>

RECURSIVE stringify(_)
RECURSIVE stringifyItems(_, _)
RECURSIVE stringifyMembers(_, _, _)

\* the elements of an array from position i on, separated by commas
stringifyItems(items, i) ==
    IF i > Len(items) THEN <<>>
    ELSE (IF i > 1 THEN << Punct(",") >> ELSE <<>>)
         \o stringify(items[i])
         \o stringifyItems(items, i + 1)

\* the members of an object in creation order; a member holding undefined
\* is left out
stringifyMembers(members, i, first) ==
    IF i > Len(MemberOrder) THEN <<>>
    ELSE LET name == MemberOrder[i] IN
         IF name \notin DOMAIN members \/ members[name].t = "undefined"
         THEN stringifyMembers(members, i + 1, first)
         ELSE (IF first THEN <<>> ELSE << Punct(",") >>)
              \o << StrTok(name), Punct(":") >>
              \o stringify(members[name])
              \o stringifyMembers(members, i + 1, FALSE)

\* JSON.stringify(value)
stringify(value) ==
    CASE value.t = "null"   -> << Lit("null") >>
      [] value.t = "number" -> << NumTok(value.v) >>
      [] value.t = "string" -> << StrTok(value.s) >>
      [] value.t = "array"  ->
            << Punct("[") >> \o stringifyItems(value.items, 1) \o << Punct("]") >>
      [] value.t = "object" ->
            << Punct("{") >> \o stringifyMembers(value.members, 1, TRUE)
                          \o << Punct("}") >>

SyntaxError == [ ok |-> FALSE ]
Parsed(value, next) == [ ok |-> TRUE, value |-> value, next |-> next ]

\* an object with one more member; a repeated name keeps the last value
WithMember(members, name, value) ==
    [ n \in DOMAIN members \cup {name} |-> IF n = name THEN value ELSE members[n] ]

NoMembers == [ n \in {} |-> NullValue ]

RECURSIVE parseValue(_, _)
RECURSIVE parseItems(_, _, _)
RECURSIVE parseMembers(_, _, _)

\* the elements of an array, the first of them at position i
parseItems(text, i, items) ==
    LET element == parseValue(text, i) IN
    IF ~element.ok \/ element.next > Len(text) THEN SyntaxError
    ELSE IF text[element.next] = Punct(",")
         THEN parseItems(text, element.next + 1, Append(items, element.value))
    ELSE IF text[element.next] = Punct("]")
         THEN Parsed(ArrayValue(Append(items, element.value)), element.next + 1)
    ELSE SyntaxError

\* the members of an object, the first name at position i
parseMembers(text, i, members) ==
    IF i + 1 > Len(text) \/ text[i].k # "string" \/ text[i + 1] # Punct(":")
    THEN SyntaxError
    ELSE LET member == parseValue(text, i + 2) IN
         IF ~member.ok \/ member.next > Len(text) THEN SyntaxError
         ELSE IF text[member.next] = Punct(",")
              THEN parseMembers(text, member.next + 1,
                                WithMember(members, text[i].s, member.value))
         ELSE IF text[member.next] = Punct("}")
              THEN Parsed(ObjectValue(WithMember(members, text[i].s, member.value)),
                          member.next + 1)
         ELSE SyntaxError

\* the JSON value that starts at position i
parseValue(text, i) ==
    IF i > Len(text) THEN SyntaxError
    ELSE LET token == text[i] IN
         CASE token.k = "literal" ->
                 IF token.w = "null" THEN Parsed(NullValue, i + 1) ELSE SyntaxError
           [] token.k = "number" -> Parsed(NumberValue(token.n), i + 1)
           [] token.k = "string" -> Parsed(StringOf(token.s), i + 1)
           [] token.k = "punct" ->
                 IF token.c = "[" THEN
                     IF i + 1 <= Len(text) /\ text[i + 1] = Punct("]")
                     THEN Parsed(ArrayValue(<<>>), i + 2)
                     ELSE parseItems(text, i + 1, <<>>)
                 ELSE IF token.c = "{" THEN
                     IF i + 1 <= Len(text) /\ text[i + 1] = Punct("}")
                     THEN Parsed(ObjectValue(NoMembers), i + 2)
                     ELSE parseMembers(text, i + 1, NoMembers)
                 ELSE SyntaxError

\* JSON.parse(text): the whole text must be one value
parse(text) ==
    LET result == parseValue(text, 1) IN
    IF result.ok /\ result.next = Len(text) + 1 THEN result ELSE SyntaxError

\* serializeSession(sessionMessages), the clock reading now
serializeSession(sessionMessages, now) ==
    stringify(ObjectValue([ savedAt |-> StringOf(now),
                            messages |-> ArrayValue(sessionMessages) ]))

\* a validation that looks at the content only
isValidMessageAnyRole(message) ==
    /\ ~(message.t \in {"null", "undefined"})
    /\ Member(message, "content").t = "string"

\* the callback of savedMessages.every
isValidMessage(message) ==
    /\ ~(message.t \in {"null", "undefined"})
    /\ ~(message.t = "number" /\ message.v = 0)
    /\ ~(message.t = "string" /\ message.s = "")
    /\ Member(message, "role") \in { StringOf("assistant"), StringOf("user") }
    /\ Member(message, "content").t = "string"

\* parseStoredSession(value); a property read on null throws a TypeError,
\* which the catch turns into null like a SyntaxError
parseStoredSession(value) ==
    IF value.t = "null" \/ value.tokens = <<>> THEN NullValue
    ELSE LET result == parse(value.tokens) IN
         IF ~result.ok \/ result.value.t = "null" THEN NullValue
         ELSE LET payload == result.value
                  savedAt == IF Member(payload, "savedAt").t = "string"
                             THEN Member(payload, "savedAt") ELSE NullValue
                  savedMessages == IF Member(payload, "messages").t = "array"
                                   THEN Member(payload, "messages") ELSE NullValue
              IN IF savedMessages.t = "null" THEN NullValue
                 ELSE IF ~(\A i \in DOMAIN savedMessages.items :
                              isValidMessage(savedMessages.items[i]))
                      THEN NullValue
                 ELSE ObjectValue([ savedAt |-> savedAt, messages |-> savedMessages ])

\* what localStorage holds under SESSION_STORAGE_KEY
Text(tokens) == [ t |-> "text", tokens |-> tokens ]

\* localStorage.getItem: null when nothing was stored
getItem(store) == IF store = Idle THEN NullValue ELSE store

SessionMessage(role, content) ==
    ObjectValue([ role |-> role, content |-> content ])

\* the messages the hook keeps: { role, content } appended by sendMessage
\* and by the reply handlers
ValidMessages ==
    { SessionMessage(StringOf(role), StringOf(content)) :
        role \in {"assistant", "user"}, content \in {"Hello", ""} }

\* array elements a stored text may hold
StoredElements ==
    ValidMessages
    \cup { SessionMessage(StringOf("system"), StringOf("x")),
           SessionMessage(StringOf("user"), NumberValue(42)),
           SessionMessage(NumberValue(1), StringOf("x")),
           ObjectValue([ content |-> StringOf("x") ]),
           ObjectValue([ role |-> StringOf("user") ]),
           ObjectValue([ role |-> StringOf("user"), content |-> StringOf("x"),
                         foo |-> NumberValue(1) ]),
           NullValue, StringOf("user"), ArrayValue(<<>>) }

\* what a stored object may hold under one member name; Undefined: no member
StoredMessagesMembers ==
    { ArrayValue(items) : items \in SeqsUpTo(StoredElements, MaxStoredMessages) }
    \cup { Undefined, NullValue, StringOf("x"), ObjectValue(NoMembers) }

StoredSavedAtMembers == { Undefined, StringOf("2024-01-01"), NumberValue(7) }

WithoutUndefined(members) ==
    [ n \in { m \in DOMAIN members : members[m].t # "undefined" } |-> members[n] ]

\* the JSON values a text under the key may spell
StoredValues ==
    { ObjectValue(WithoutUndefined([ savedAt |-> savedAt, messages |-> messages ])) :
        savedAt \in StoredSavedAtMembers, messages \in StoredMessagesMembers }
    \cup { ObjectValue([ foo |-> NumberValue(1) ]),
           NullValue, NumberValue(1), StringOf("x"),
           ArrayValue(<< SessionMessage(StringOf("user"), StringOf("Hello")) >>) }

ASession == ObjectValue([ messages |-> ArrayValue(<<>>) ])

\* texts that are not JSON: a bare word, a text cut short, a text with a
\* token left over, a dangling comma
NotJson ==
    { << Lit("not-json") >>,
      SubSeq(stringify(ASession), 1, Len(stringify(ASession)) - 1),
      stringify(ASession) \o << Punct("}") >>,
      << Punct("["), NumTok(1), Punct(","), Punct("]") >>,
      << Punct("{"), StrTok("messages"), Punct("["), Punct("]"), Punct("}") >> }

Timestamps == { "2024-01-01T00:00:00.000Z", "2024-06-30T12:00:00.000Z" }

InitSession ==
    /\ pc = "page"
    /\ SessionIdle
    /\ TextIdle
    /\ CallsIdle
    /\ HookIdle
    /\ ResolverIdle
    /\ ArbiterIdle
    /\ EngineIdle
    /\ ExtractorIdle
    /\ ServerIdle

exceptSession ==
    << resolverVars, arbiterVars, engineVars, extractorVars, serverVars, textVars,
       callVars, hookVars >>

\* the auto-save effect: localStorage.setItem(SESSION_STORAGE_KEY, serializeSession(messages))
SaveSession ==
    /\ pc = "page"
    /\ \E sessionMessages \in SeqsUpTo(ValidMessages, MaxStoredMessages) :
       \E now \in Timestamps :
          /\ written' = [ t |-> "messages", messages |-> sessionMessages ]
          /\ storage' = Text(serializeSession(sessionMessages, now))
    /\ pc' = "stored"
    /\ UNCHANGED << session, exceptSession >>

\* some other writer leaves the text of a JSON value under the key
StoreJson ==
    /\ pc = "page"
    /\ \E value \in StoredValues :
          /\ written' = [ t |-> "value", value |-> value ]
          /\ storage' = Text(stringify(value))
    /\ pc' = "stored"
    /\ UNCHANGED << session, exceptSession >>

\* some other writer leaves an empty text or a text that is not JSON
StoreText ==
    /\ pc = "page"
    /\ \E tokens \in NotJson \cup { <<>> } :
          /\ written' = [ t |-> "text" ]
          /\ storage' = Text(tokens)
    /\ pc' = "stored"
    /\ UNCHANGED << session, exceptSession >>

\* restoreLastSession: parseStoredSession(localStorage.getItem(SESSION_STORAGE_KEY))
LoadSession ==
    /\ pc \in {"page", "stored"}
    /\ session' = parseStoredSession(getItem(storage))
    /\ pc' = "loaded"
    /\ UNCHANGED << written, storage, exceptSession >>

NextSession == SaveSession \/ StoreJson \/ StoreText \/ LoadSession

SpecSession == InitSession /\ [][NextSession]_vars

\* a JSON object whose messages is an array in which every element has
\* role 'assistant' or 'user' and a string content
IsSessionPayload(value) ==
    /\ value.t = "object"
    /\ "messages" \in DOMAIN value.members
    /\ value.members.messages.t = "array"
    /\ \A i \in DOMAIN value.members.messages.items :
          LET element == value.members.messages.items[i] IN
          /\ element.t = "object"
          /\ {"role", "content"} \subseteq DOMAIN element.members
          /\ element.members.role \in { StringOf("assistant"), StringOf("user") }
          /\ element.members.content.t = "string"

\* C18: parseStoredSession returns a non-null session exactly when its input
\* is JSON text of an object whose messages is an array in which every
\* element has role 'assistant' or 'user' and a string content; empty input,
\* text that is not JSON, a missing messages array, another role and
\* non-string content all give null.  For a valid message list m,
\* parseStoredSession(serializeSession(m)).messages equals m and savedAt is
\* a timestamp.
C18_StoredSession ==
    pc = "loaded" =>
       /\ session # NullValue <=>
             \/ written.t = "messages"
             \/ written.t = "value" /\ IsSessionPayload(written.value)
       /\ written.t = "messages" =>
             /\ session # NullValue
             /\ Member(session, "messages") = ArrayValue(written.messages)
             /\ Member(session, "savedAt").t = "string"
             /\ Member(session, "savedAt").s \in Timestamps

\* a two-message session went through serializeSession and came back
C18_Witness ==
    /\ pc = "loaded"
    /\ written.t = "messages"
    /\ Len(written.messages) = 2
    /\ written.messages[1] # written.messages[2]
    /\ session # NullValue
    /\ Member(session, "messages").items = written.messages

----------------------------------------------------------------------------
(* Transcript Segmenter on texts: brief-extractor.js, lines 14-95.         *)
(* A text is a sequence of tokens: words, whitespace runs, line breaks     *)
(* and the punctuation marks ":", ";", "-".                                *)

toLowerCaseText(text) == [ i \in DOMAIN text |-> toLowerCase(text[i]) ]

\* text.split(separator) for a one-token separator
RECURSIVE splitOn(_, _, _, _)
splitOn(text, separators, part, parts) ==
    IF text = <<>> THEN Append(parts, part)
    ELSE IF Head(text) \in separators
         THEN splitOn(Tail(text), separators, <<>>, Append(parts, part))
         ELSE splitOn(Tail(text), separators, Append(part, Head(text)), parts)

\* parts.join(separator)
RECURSIVE join(_, _)
join(parts, separator) ==
    IF parts = <<>> THEN <<>>
    ELSE IF Len(parts) = 1 THEN parts[1]
    ELSE parts[1] \o << separator >> \o join(Tail(parts), separator)

\* line.match(/^(user|assistant)\s*:\s*(.*)$/i) on a trimmed line: the
\* role in lower case and the rest of the line, or no match
roleMatch(line) ==
    IF line = <<>> \/ toLowerCase(line[1]) \notin {"user", "assistant"}
    THEN [ matched |-> FALSE ]
    ELSE LET afterRole == trimStart(Tail(line)) IN
         IF afterRole = <<>> \/ afterRole[1] # ":" THEN [ matched |-> FALSE ]
         ELSE [ matched |-> TRUE,
                role |-> toLowerCase(line[1]),
                rest |-> trimStart(Tail(afterRole)) ]

NoRole == "<none>"

\* flush(): the buffered lines become a turn unless their text is empty
flush(turns, currentRole, buffer) ==
    IF currentRole = NoRole THEN turns
    ELSE LET content == trim(join(buffer, "\n")) IN
         IF content # <<>> THEN Append(turns, [ role |-> currentRole, content |-> content ])
         ELSE turns

\* the loop over the lines of the transcript
RECURSIVE scanLines(_, _, _, _)
scanLines(lines, turns, currentRole, buffer) ==
    IF lines = <<>> THEN flush(turns, currentRole, buffer)
    ELSE LET rawLine == Head(lines)
             match == roleMatch(trim(rawLine))
         IN  IF match.matched
             THEN scanLines(Tail(lines), flush(turns, currentRole, buffer),
                            match.role, << match.rest >>)
             ELSE IF currentRole # NoRole
                  THEN scanLines(Tail(lines), turns, currentRole, Append(buffer, rawLine))
                  ELSE scanLines(Tail(lines), turns, currentRole, buffer)

extractUserTurnsFromTranscript(transcript) ==
    LET turns == scanLines(splitOn(transcript, {"\n"}, <<>>, <<>>), <<>>, NoRole, <<>>)
    IN  IF turns = <<>> /\ trim(transcript) # <<>>
        THEN << [ role |-> "user", content |-> trim(transcript) ] >>
        ELSE turns

\* segmentTurns on a text
segmentTranscript(transcript) ==
    SelectSeq(extractUserTurnsFromTranscript(transcript),
              LAMBDA turn : turn.role = "user")

\* normalizeHistoryInput, lines 39-41, for a list of message objects:
\* transcript.trim() || the lines `${role}: ${content}` joined by "\n"
transcriptTextOf(transcript, messageHistory) ==
    IF trim(transcript) # <<>> THEN trim(transcript)
    ELSE join([ i \in DOMAIN messageHistory |->
                  << messageHistory[i].role, ":", " " >> \o messageHistory[i].content ],
              "\n")

Bullets == { "-", "*" }
Numerals == { "1.", "2." }

\* text.split(/\n|[*-]\s+|\d+\.\s+|;+/): a bullet or a numeral separates
\* only when whitespace follows it, and takes that whitespace with it
RECURSIVE splitStatements(_, _, _)
splitStatements(text, part, parts) ==
    IF text = <<>> THEN Append(parts, part)
    ELSE IF Head(text) \in {"\n", ";"}
         THEN splitStatements(Tail(text), <<>>, Append(parts, part))
    ELSE IF /\ Head(text) \in Bullets \cup Numerals
            /\ Len(text) > 1
            /\ IsSpace(text[2])
         THEN splitStatements(trimStart(Tail(text)), <<>>, Append(parts, part))
    ELSE splitStatements(Tail(text), Append(part, Head(text)), parts)

splitCandidateStatements(text) ==
    LET parts == splitStatements(text, <<>>, <<>>)
        trimmed == [ i \in DOMAIN parts |-> trim(parts[i]) ]
    IN  SelectSeq(trimmed, LAMBDA part : part # <<>>)

----------------------------------------------------------------------------
(* Field Detector on texts: brief-schema.js, lines 1-55, and               *)
(* brief-extractor.js, lines 97-173.  A pattern /\bw1 w2\b/ is the phrase  *)
(* << w1, " ", w2 >>; it matches a normalized text that contains it.       *)

Contains(text, phrase) ==
    \E i \in 1..(Len(text) - Len(phrase) + 1) :
        SubSeq(text, i, i + Len(phrase) - 1) = phrase

\* hasAny(text, patterns)
hasAny(text, phrases) == \E phrase \in phrases : Contains(text, phrase)

Word(w) == << w >>
Words2(a, b) == << a, " ", b >>
Words3(a, b, c) == << a, " ", b, " ", c >>
Hyphened(a, b) == << a, "-", b >>

\* briefFieldDefinitions[key].patterns
briefFieldPatterns ==
    [ objective |-> { Word("objective"), Word("goal"), Words2("i", "need"),
                      Words2("i", "want"), Word("task") },
      audience |-> { Word("audience"), Word("for"), Word("target"), Word("reader"),
                     Word("readers"), Word("user"), Word("users") },
      context |-> { Word("context"), Word("background"), Word("source"),
                    Word("data"), Word("input") },
      constraints |-> { Word("constraint"), Word("must"), Word("should"),
                        Word("limit"), Word("avoid") },
      nonGoals |-> { Hyphened("non", "goal"), Hyphened("non", "goals"),
                     Words3("out", "of", "scope"), Words2("do", "not"),
                     Word("don't"), Words2("not", "include") },
      outputFormat |-> { Words2("output", "format"), Word("outputformat"),
                         Word("format"), Word("json"), Word("markdown"),
                         Word("table") },
      tone |-> { Word("tone"), Word("voice"), Word("style"), Word("formal"),
                 Word("casual") },
      examples |-> { Word("example"), Word("sample"), Hyphened("few", "shot"),
                     Words2("like", "this") },
      acceptanceCriteria |-> { Words2("acceptance", "criteria"),
                               Word("acceptancecriteria"),
                               Words2("success", "criteria"),
                               Word("successcriteria"),
                               Words3("definition", "of", "done"),
                               Words2("quality", "bar") } ]

\* the own members of explicitBriefFieldAliasMap: every key and its aliases
explicitBriefFieldAliases ==
    [ objective |-> { Word("objective") },
      audience |-> { Word("audience") },
      context |-> { Word("context") },
      constraints |-> { Word("constraints") },
      nonGoals |-> { Word("nonGoals"), Hyphened("non", "goal"),
                     Hyphened("non", "goals"), Words2("non", "goals") },
      outputFormat |-> { Word("outputFormat"), Words2("output", "format") },
      tone |-> { Word("tone") },
      examples |-> { Word("examples"), Word("example") },
      acceptanceCriteria |-> { Word("acceptanceCriteria"),
                               Words2("acceptance", "criteria") } ]

\* the members the map inherits from Object.prototype whose names are in
\* lower case
InheritedMembers == { Word("constructor"), Word("__proto__") }

NoKey == "<null>"
InheritedKey == "<inherited>"

\* explicitBriefFieldAliasMap[explicitKey] || null
explicitBriefFieldAliasMap(explicitKey) ==
    IF \E key \in FieldKeys : explicitKey \in explicitBriefFieldAliases[key]
    THEN CHOOSE key \in FieldKeys : explicitKey \in explicitBriefFieldAliases[key]
    ELSE IF explicitKey \in InheritedMembers THEN InheritedKey
    ELSE NoKey

\* statement.match(/^(.+?)\s*:\s*(.+)$/i): the first colon that has text
\* on both sides
explicitMatch(statement) ==
    LET colons == { i \in 2..(Len(statement) - 1) :
                      /\ statement[i] = ":"
                      /\ trim(SubSeq(statement, 1, i - 1)) # <<>> }
    IN  IF colons = {} THEN [ matched |-> FALSE ]
        ELSE LET colon == CHOOSE i \in colons : \A j \in colons : i <= j
             IN  [ matched |-> TRUE,
                   label |-> trimEnd(SubSeq(statement, 1, colon - 1)),
                   rest |-> SubSeq(statement, colon + 1, Len(statement)) ]

ImplicitAudiences ==
    { "new", "beginner", "beginners", "executive", "executives", "manager",
      "managers", "student", "students", "engineer", "engineers", "admin",
      "admins", "leader", "leaders", "team", "teams", "customer", "customers",
      "user", "users" }

ContextVerbs == { Words2("based", "on"), Word("using"), Word("from"), Word("given") }

ContextNouns ==
    { Word("data"), Word("doc"), Word("docs"), Word("document"), Word("documents"),
      Word("transcript"), Word("report"), Word("note"), Word("notes"),
      Word("dataset"), Word("source"), Word("background"), Word("input") }

NoDetection == [ key |-> NoKey, value |-> null, explicit |-> FALSE, implicit |-> FALSE ]

detectImplicitField(statement, normalized) ==
    IF \/ \E w \in ImplicitAudiences : Contains(normalized, Words2("for", w))
       \/ Contains(normalized, << "for", " ", "first", "-", "time" >>)
       \/ Contains(normalized, << "for", " ", "first", " ", "time" >>)
       \/ Contains(normalized, Words2("for", "firsttime"))
    THEN [ key |-> "audience", value |-> trim(statement),
           explicit |-> FALSE, implicit |-> TRUE ]
    ELSE IF hasAny(normalized, ContextVerbs) /\ hasAny(normalized, ContextNouns)
    THEN [ key |-> "context", value |-> trim(statement),
           explicit |-> FALSE, implicit |-> TRUE ]
    ELSE NoDetection

NonGoalsBoundary ==
    { Hyphened("non", "goal"), Hyphened("non", "goals"), Words2("non", "goal"),
      Words2("non", "goals"), Word("nongoal"), Word("nongoals"),
      Words3("out", "of", "scope") }

ConstraintsBoundary ==
    { Word("constraint"), Word("constraints"), Words2("no", "limit"),
      Words2("no", "limits") }

\* the loop over briefFieldKeys, from position i on
RECURSIVE detectByPattern(_, _, _)
detectByPattern(statement, normalized, i) ==
    IF i > Len(briefFieldKeys) THEN detectImplicitField(statement, normalized)
    ELSE LET key == briefFieldKeys[i] IN
         IF hasAny(normalized, briefFieldPatterns[key])
         THEN [ key |-> key, value |-> trim(statement), explicit |-> FALSE,
                implicit |-> /\ key \in {"audience", "context"}
                             /\ detectImplicitField(statement, normalized).key = key ]
         ELSE detectByPattern(statement, normalized, i + 1)

\* a detector that tries the field patterns before the boundary phrasing
detectByPatternFirst(statement, normalized) ==
    LET detection == detectByPattern(statement, normalized, 1) IN
    IF detection.key # NoKey THEN detection
    ELSE IF hasAny(normalized, NonGoalsBoundary)
    THEN [ key |-> "nonGoals", value |-> trim(statement),
           explicit |-> FALSE, implicit |-> FALSE ]
    ELSE IF hasAny(normalized, ConstraintsBoundary)
    THEN [ key |-> "constraints", value |-> trim(statement),
           explicit |-> FALSE, implicit |-> FALSE ]
    ELSE NoDetection

\* the rules of detectField after the explicit label
detectUnlabelled(statement, normalized) ==
    IF hasAny(normalized, NonGoalsBoundary)
    THEN [ key |-> "nonGoals", value |-> trim(statement),
           explicit |-> FALSE, implicit |-> FALSE ]
    ELSE IF hasAny(normalized, ConstraintsBoundary)
    THEN [ key |-> "constraints", value |-> trim(statement),
           explicit |-> FALSE, implicit |-> FALSE ]
    ELSE detectByPattern(statement, normalized, 1)

detectField(statement, normalized) ==
    LET match == explicitMatch(statement) IN
    IF match.matched
    THEN LET key == explicitBriefFieldAliasMap(trim(toLowerCaseText(match.label)))
         IN  [ key |-> key, value |-> trim(match.rest),
               explicit |-> key # NoKey, implicit |-> FALSE ]
    ELSE detectUnlabelled(statement, normalized)

NegatedConstraints ==
    { << a, " ", b >> : a \in {"no", "without", "not"},
                        b \in {"constraint", "constraints"} }
    \cup { << a, " ", "hard", " ", b >> : a \in {"no", "without", "not"},
                                          b \in {"constraint", "constraints"} }
    \cup { Words2("no", "limit"), Words2("no", "limits") }

NegatedNonGoals ==
    UNION { { << a, " " >> \o b : b \in NonGoalsBoundary \ { Words3("out", "of", "scope") } } :
            a \in {"no", "without", "not"} }
    \cup { << "nothing", " ", "is", " ", "out", " ", "of", " ", "scope" >> }

detectFieldNegation(key, normalizedStatement) ==
    IF key = "constraints" THEN hasAny(normalizedStatement, NegatedConstraints)
    ELSE IF key = "nonGoals" THEN hasAny(normalizedStatement, NegatedNonGoals)
    ELSE FALSE

\* extractCandidatesFromTurns: the statements of every turn, in order
extractCandidatesFromTurns(turnList) ==
    LET RECURSIVE fromTurn(_)
        fromTurn(turnIndex) ==
            IF turnIndex > Len(turnList) THEN <<>>
            ELSE LET statements == splitCandidateStatements(turnList[turnIndex].content)
                 IN  [ i \in DOMAIN statements |->
                         [ statement |-> statements[i],
                           turnIndex |-> turnIndex - 1,
                           statementIndex |-> i - 1,
                           normalized |-> normalizeContent(statements[i]) ] ]
                     \o fromTurn(turnIndex + 1)
    IN  fromTurn(1)

\* classifyFieldCandidates on the statements of a text.  A key that is not
\* a field (an inherited member of the alias map) has no list in byField,
\* and the push on undefined throws a TypeError.
RECURSIVE classifyCandidates(_, _)
classifyCandidates(candidates, byField) ==
    IF candidates = <<>> THEN [ threw |-> FALSE, byField |-> byField ]
    ELSE LET candidate == Head(candidates)
             detection == detectField(candidate.statement, candidate.normalized)
         IN  IF detection.key = NoKey \/ ~Truthy(detection.value)
             THEN classifyCandidates(Tail(candidates), byField)
             ELSE IF detection.key \notin FieldKeys
             THEN [ threw |-> TRUE, byField |-> byField ]
             ELSE classifyCandidates(Tail(candidates),
                    [ byField EXCEPT ![detection.key] =
                        Append(@, Candidate(detection.key, detection.value,
                                  [ explicit |-> detection.explicit,
                                    implicit |-> detection.implicit,
                                    negated |-> detectFieldNegation(detection.key,
                                                    candidate.normalized) ],
                                  candidate.turnIndex, candidate.statementIndex)) ])

----------------------------------------------------------------------------
(* The heuristic pass of extractBrief on texts: lines 329-331 and 255-260  *)

MaxTurns == 2

\* contents of messages: one statement or several, labelled or not
UserContents ==
    { << "Objective", ":", " ", "FAQ" >>,
      << "Objective", ":", " ", "Draft", " ", "Memo" >>,
      << "for", " ", "managers" >>,
      << "Note", ":", " ", "the", " ", "audience", " ", "is", " ", "managers" >>,
      << "out", " ", "of", " ", "scope", ":", " ", "pricing" >>,
      << "constructor", ":", " ", "FAQ" >>,
      << "nonGoals", ":", " ", "pricing" >>,
      << "the", " ", "goal", " ", "is", " ", "out", " ", "of", " ", "scope" >>,
      << "data", " ", "for", " ", "managers" >>,
      << "using", " ", "the", " ", "report" >>,
      << "Objective", ":", " ", "FAQ", ";", " ", "no", " ", "constraints" >>,
      << "hello" >>,
      <<>> }

AssistantContents ==
    { << "Sure" >>,
      << "the", " ", "audience", " ", "is", " ", "managers" >>,
      << "Sure", "\n", "user", ":", " ", "Objective", ":", " ", "Draft", " ", "Memo" >>,
      <<>> }

TextMessages ==
    { [ role |-> "user", content |-> content ] : content \in UserContents }
    \cup { [ role |-> "assistant", content |-> content ] : content \in AssistantContents }

\* transcripts handed over as one text
Transcripts ==
    { << "Objective", ":", " ", "FAQ" >>,
      << "User", ":", " ", "Objective", ":", " ", "FAQ", "\n",
         "Assistant", " ", ":", " ", "the", " ", "audience", " ", "is", " ", "managers" >>,
      << " ", "assistant", ":", " ", "Sure", "\n", " ", "for", " ", "managers", " " >>,
      << "Objective", ":", " ", "FAQ", "\n", "assistant", ":" >> }

\* { transcript, messages } with messages an array of message objects
TextRequests ==
    { [ transcript |-> <<>>, messages |-> messages ] :
        messages \in SeqsUpTo(TextMessages, MaxTurns) }
    \cup { [ transcript |-> transcript, messages |-> <<>> ] : transcript \in Transcripts }

TurnList(items) == [ t |-> "turns", items |-> items ]

InitText ==
    /\ pc = "history"
    /\ request \in TextRequests
    /\ httpResponse = Idle
    /\ ResolverIdle
    /\ ArbiterIdle
    /\ EngineIdle
    /\ ExtractorIdle
    /\ SessionIdle
    /\ TextIdle
    /\ CallsIdle
    /\ HookIdle

exceptText ==
    << request, httpResponse, resolverVars, arbiterVars, engineVars, sessionVars,
       callVars, hookVars, normalizeWithModel, llmRaw, modelCalls >>

\* extractBrief, line 330
NormalizeHistory ==
    /\ pc = "history"
    /\ renderedText' = Text(transcriptTextOf(request.transcript, request.messages))
    /\ pc' = "normalized"
    /\ UNCHANGED << userTurns, classified, response, exceptText >>

\* extractHeuristicBrief, line 256
SegmentTurns ==
    /\ pc = "normalized"
    /\ userTurns' = TurnList(segmentTranscript(renderedText.tokens))
    /\ pc' = "segmented"
    /\ UNCHANGED << renderedText, classified, response, exceptText >>

\* extractHeuristicBrief, lines 257-258; a TypeError leaves extractBrief
ClassifyCandidates ==
    /\ pc = "segmented"
    /\ LET outcome == classifyCandidates(extractCandidatesFromTurns(userTurns.items),
                                         EmptyByField)
       IN  IF outcome.threw
           THEN pc' = "thrown" /\ UNCHANGED classified
           ELSE pc' = "classified" /\ classified' = outcome.byField
    /\ UNCHANGED << renderedText, userTurns, response, exceptText >>

\* extractHeuristicBrief, line 259, and the response of lines 333-339
ResolveConflicts ==
    /\ pc = "classified"
    /\ response' = heuristicResponse(extractHeuristicBrief(classified))
    /\ pc' = "returned"
    /\ UNCHANGED << renderedText, userTurns, classified, exceptText >>

NextText == NormalizeHistory \/ SegmentTurns \/ ClassifyCandidates \/ ResolveConflicts

SpecText == InitText /\ [][NextText]_vars

\* the messages with the content of every assistant message emptied
Silenced(messages) ==
    [ i \in DOMAIN messages |->
        IF messages[i].role = "assistant"
        THEN [ role |-> "assistant", content |-> <<>> ]
        ELSE messages[i] ]

\* what the heuristic pass makes of a message list
heuristicOutcome(transcript, messages) ==
    LET outcome == classifyCandidates(
                       extractCandidatesFromTurns(
                           segmentTranscript(transcriptTextOf(transcript, messages))),
                       EmptyByField)
    IN  IF outcome.threw THEN [ threw |-> TRUE ]
        ELSE [ threw |-> FALSE,
               fields |-> extractHeuristicBrief(outcome.byField).fields,
               unresolvedConflicts |->
                   extractHeuristicBrief(outcome.byField).unresolvedConflicts ]

\* C19: assistant content never reaches field detection.  For a role-tagged
\* message list, the heuristic fields and unresolvedConflicts are those of
\* the same list with the contents of its assistant messages emptied,
\* whatever those contents are, multi-line contents with lines that begin
\* with 'user:' included.
C19_AsStated ==
    pc = "returned" /\ request.transcript = <<>> =>
        LET silenced == heuristicOutcome(<<>>, Silenced(request.messages)) IN
        /\ ~silenced.threw
        /\ response.fields = silenced.fields
        /\ response.unresolvedConflicts = silenced.unresolvedConflicts

\* C20: the Field Detector attempts its four rules in order and drops a
\* statement only if none matches.  Every statement of a user turn that
\* boundary phrasing, the ordered pattern fallback or the implicit phrasing
\* fallback matches yields a candidate, also when the statement has the
\* form '<label>: <value>' with a label that is no field name or alias.
C20_AsStated ==
    pc = "classified" =>
        LET candidates == extractCandidatesFromTurns(userTurns.items) IN
        \A i \in DOMAIN candidates :
            detectUnlabelled(candidates[i].statement, candidates[i].normalized).key
                    \in FieldKeys
            => \E key \in FieldKeys : \E j \in DOMAIN classified[key] :
                  /\ classified[key][j].turnIndex = candidates[i].turnIndex
                  /\ classified[key][j].statementIndex = candidates[i].statementIndex

----------------------------------------------------------------------------
(* Several extractBrief calls in flight: brief-extractor.js, lines 329-367.*)
(* JavaScript runs a call up to its await in one piece; the calls          *)
(* interleave at the awaited model call.  Every call has its own locals    *)
(* (heuristic, response, llmRaw); the module state they share is the       *)
(* Schema Registry with the lastIndex of its patterns.                     *)

MaxCalls == 3

SchemaRegistry ==
    [ briefFieldKeys |-> briefFieldKeys, lastIndex |-> [ key \in FieldKeys |-> 0 ] ]

\* pattern.test(text) on a pattern with the global flag: lastIndex moves
\* behind the match
lastIndexAfterGlobalTest(lastIndex) == lastIndex + 1

\* pattern.test(text) on the patterns of brief-schema.js, none of which has
\* the g or y flag: the search starts at 0 and lastIndex is left alone
lastIndexAfterTest(lastIndex) == lastIndex

CallRequests ==
    { [ transcript |-> <<>>,
        messages |-> << [ role |-> "user", content |-> content ] >> ] :
        content \in { << "Objective", ":", " ", "FAQ" >>, << "for", " ", "managers" >> } }

\* a reply that judges the objective alone, with little confidence
CautiousReply ==
    ReplyObject(ObjectValue([ key \in {"objective"} |-> Judged(40) ]),
                << ArrayValue(<<>>), ArrayValue(<<>>) >>)

CallReplies == { << Prose >>, << JsonText(CautiousReply) >> }

\* a call that has not run yet; capability: normalizeWithModel is a function
NewCall(input, capability) ==
    [ pc |-> "idle", request |-> input, capability |-> capability,
      heuristic |-> Idle, llmRaw |-> Idle, response |-> Idle ]

InitCalls ==
    /\ pc = "calls"
    /\ extractions \in [ 1..MaxCalls ->
                           { NewCall(input, capability) :
                               input \in CallRequests, capability \in BOOLEAN } ]
    /\ registry = SchemaRegistry
    /\ ResolverIdle
    /\ ArbiterIdle
    /\ EngineIdle
    /\ ExtractorIdle
    /\ ServerIdle
    /\ SessionIdle
    /\ TextIdle
    /\ HookIdle

exceptCalls ==
    << pc, resolverVars, arbiterVars, engineVars, extractorVars, serverVars,
       sessionVars, textVars, hookVars >>

\* a heuristic kept in one variable of the module: a call finds there what
\* another call that has begun left
sharedHeuristic(states, i) ==
    LET others == { j \in DOMAIN states : j # i /\ states[j].pc # "idle" }
    IN  IF others # {} THEN states[CHOOSE j \in others : TRUE].heuristic
        ELSE states[i].heuristic

\* const heuristic of line 331: the closure of call i keeps its own
capturedHeuristic(states, i) == states[i].heuristic

\* lines 329-346 of call i: the heuristic pass, the response object, and
\* the return or the invocation of the capability
BeginExtraction(i) ==
    /\ extractions[i].pc = "idle"
    /\ LET call == extractions[i]
           heuristic == heuristicOutcome(call.request.transcript, call.request.messages)
       IN  /\ ~heuristic.threw
           /\ extractions' =
                 [ extractions EXCEPT ![i] =
                     [ call EXCEPT !.heuristic = heuristic,
                                   !.response = heuristicResponse(heuristic),
                                   !.pc = IF call.capability THEN "awaiting"
                                          ELSE "returned" ] ]
    /\ registry' = [ registry EXCEPT !.lastIndex =
                       [ key \in FieldKeys |-> lastIndexAfterTest(@[key]) ] ]
    /\ UNCHANGED exceptCalls

\* lines 346-363 of call i: the awaited call resolves
ModelSettles(i) ==
    /\ extractions[i].pc = "awaiting"
    /\ \E raw \in CallReplies :
          extractions' =
              [ extractions EXCEPT ![i] =
                  [ @ EXCEPT !.llmRaw = Resolved(raw),
                             !.response = arbitrate(capturedHeuristic(extractions, i),
                                                    extractions[i].response,
                                                    parseNormalizerResponse(raw)),
                             !.pc = "returned" ] ]
    /\ UNCHANGED << registry, exceptCalls >>

\* lines 364-366 of call i: the awaited call rejects
ModelRejects(i) ==
    /\ extractions[i].pc = "awaiting"
    /\ extractions' =
          [ extractions EXCEPT ![i] =
              [ @ EXCEPT !.llmRaw = Rejected,
                         !.response = catchModelFailure(extractions[i].response),
                         !.pc = "returned" ] ]
    /\ UNCHANGED << registry, exceptCalls >>

NextCalls ==
    \E i \in 1..MaxCalls : BeginExtraction(i) \/ ModelSettles(i) \/ ModelRejects(i)

SpecCalls == InitCalls /\ [][NextCalls]_vars

\* what a call with this input, capability and model output returns when
\* no other call runs
ReturnedAlone(call) ==
    LET heuristic == heuristicOutcome(call.request.transcript, call.request.messages)
        built == heuristicResponse(heuristic)
    IN  IF ~call.capability \/ call.llmRaw = Rejected THEN built
        ELSE arbitrate(heuristic, built, parseNormalizerResponse(call.llmRaw.text))

YieldsNoCandidate ==
    LET candidates ==
            extractCandidatesFromTurns(
                segmentTranscript(transcriptTextOf(request.transcript, request.messages)))
    IN  \A i \in DOMAIN candidates :
            detectField(candidates[i].statement, candidates[i].normalized).key
                \notin FieldKeys

\* C12: no-evidence property.  For any transcript in which no statement
\* yields a candidate for any field, the empty transcript included,
\* extractBrief does not fail and returns every FieldResult with value
\* absent, confidence 0, source heuristic and the single no-evidence
\* assumption, with no UnresolvedConflict.
C12_NoFailure ==
    YieldsNoCandidate =>
        /\ pc # "thrown"
        /\ pc = "returned" =>
              /\ \A key \in FieldKeys : response.fields[key] = NoEvidenceResult
              /\ response.unresolvedConflicts = <<>>

\* the fields of which the label is a name or an alias in some letter case
FieldsNamed(label) ==
    { key \in FieldKeys :
        \E alias \in explicitBriefFieldAliases[key] :
            toLowerCaseText(alias) = trim(toLowerCaseText(label)) }

\* C21: explicit label match is case-insensitive over every known field
\* name and alias.  A statement '<label>: <value>' whose label equals one of
\* the nine field names (the camel-case names nonGoals, outputFormat and
\* acceptanceCriteria included) or a declared alias in any letter case
\* yields a candidate for that field with explicit = true and the trimmed
\* text after the colon as its value.
C21_AsStated ==
    pc = "classified" =>
        LET candidates == extractCandidatesFromTurns(userTurns.items) IN
        \A i \in DOMAIN candidates :
            LET match == explicitMatch(candidates[i].statement) IN
            match.matched =>
                \A key \in FieldsNamed(match.label) :
                    \E j \in DOMAIN classified[key] :
                        /\ classified[key][j].turnIndex = candidates[i].turnIndex
                        /\ classified[key][j].statementIndex = candidates[i].statementIndex
                        /\ classified[key][j].explicit
                        /\ classified[key][j].value = trim(match.rest)

\* the positions in briefFieldKeys of the fields whose patterns match
MatchingPositions(normalized) ==
    { i \in DOMAIN briefFieldKeys :
        hasAny(normalized, briefFieldPatterns[briefFieldKeys[i]]) }

\* the field the precedence order gives an unlabelled statement, or NoKey
FieldByPrecedence(statement, normalized) ==
    IF hasAny(normalized, NonGoalsBoundary) THEN "nonGoals"
    ELSE IF hasAny(normalized, ConstraintsBoundary) THEN "constraints"
    ELSE IF MatchingPositions(normalized) # {}
    THEN briefFieldKeys[CHOOSE i \in MatchingPositions(normalized) :
                          \A j \in MatchingPositions(normalized) : i <= j]
    ELSE detectImplicitField(statement, normalized).key

\* the candidates in byField that stem from one statement
CandidatesOf(byField, candidate) ==
    UNION { { << key, j >> : j \in { n \in DOMAIN byField[key] :
                  /\ byField[key][n].turnIndex = candidate.turnIndex
                  /\ byField[key][n].statementIndex = candidate.statementIndex } } :
            key \in FieldKeys }

\* C22: precedence for unlabelled statements.  Each statement is assigned
\* to at most one field: nonGoals for non-goal or out-of-scope phrasing,
\* else constraints for constraint or no-limit phrasing, else the first
\* field in declared order whose patterns match, else audience and then
\* context by implicit phrasing; a later rule decides only when all earlier
\* rules found nothing.
C22_Precedence ==
    pc = "classified" =>
        LET candidates == extractCandidatesFromTurns(userTurns.items) IN
        \A i \in DOMAIN candidates :
            LET assigned == CandidatesOf(classified, candidates[i])
                expected == FieldByPrecedence(candidates[i].statement,
                                              candidates[i].normalized)
            IN  /\ Cardinality(assigned) <= 1
                /\ ~explicitMatch(candidates[i].statement).matched =>
                      IF expected = NoKey THEN assigned = {}
                      ELSE /\ Cardinality(assigned) = 1
                           /\ \A a \in assigned :
                                 /\ a[1] = expected
                                 /\ ~classified[a[1]][a[2]].explicit

\* a statement with an objective cue and out-of-scope phrasing went to
\* nonGoals, and one with a context cue and an audience cue to audience
C22_Witness ==
    /\ pc = "classified"
    /\ Len(classified["nonGoals"]) = 1
    /\ classified["nonGoals"][1].normalizedValue
         = << "the", " ", "goal", " ", "is", " ", "out", " ", "of", " ", "scope" >>
    /\ classified["objective"] = <<>>
    /\ Len(classified["audience"]) = 1
    /\ classified["audience"][1].normalizedValue
         = << "data", " ", "for", " ", "managers" >>
    /\ classified["audience"][1].implicit
    /\ classified["context"] = <<>>

\* two non-negated candidates of the field differ in their normalized value
ValueConflictExists(entries) ==
    \E i, j \in DOMAIN entries :
        /\ ~entries[i].negated
        /\ ~entries[j].negated
        /\ entries[i].normalizedValue # entries[j].normalizedValue

\* some candidate's negated flag differs from the winner's
PolarityConflictExists(entries) ==
    \E i \in DOMAIN entries : entries[i].negated # LatestCandidate(entries).negated

\* C23: conflict recording.  The Conflict Resolver records exactly one
\* UnresolvedConflict for a field if and only if a value conflict or a
\* polarity conflict exists, and none otherwise; the reason is the
\* 'contradictory statements' text iff a polarity conflict exists and the
\* 'multiple competing values' text otherwise, and candidates lists every
\* candidate value of the field in transcript order.
C23_ConflictRecording ==
    pc = "resolved" =>
        IF values # <<>> /\ (ValueConflictExists(values) \/ PolarityConflictExists(values))
        THEN /\ Len(resolved.conflicts) = 1
             /\ resolved.conflicts[1].field = fieldKey
             /\ resolved.conflicts[1].reason =
                   IF PolarityConflictExists(values) THEN ReasonPolarity
                   ELSE ReasonValues
             /\ resolved.conflicts[1].candidates = [ i \in DOMAIN values |-> values[i].value ]
             /\ \A i \in 1..(Len(values) - 1) : Precedes(values[i], values[i + 1])
        ELSE resolved.conflicts = <<>>

\* three candidates, the first negated and the other two affirmed with
\* different texts: one conflict, with the polarity reason and all three
\* texts in order
C23_Witness ==
    /\ pc = "resolved"
    /\ Len(values) = 3
    /\ values[1].negated /\ ~values[2].negated /\ ~values[3].negated
    /\ values[2].normalizedValue # values[3].normalizedValue
    /\ Len(resolved.conflicts) = 1
    /\ resolved.conflicts[1].reason = ReasonPolarity
    /\ Len(resolved.conflicts[1].candidates) = 3

\* the conflict penalty of a field, in millionths
ConflictPenaltyOf(key) ==
    CASE key = "objective" -> Hundredths(16)
      [] key \in {"audience", "context"} -> Hundredths(14)
      [] OTHER -> Hundredths(12)

\* the winner with other flags
WinnerWith(selected, flags) ==
    [ selected EXCEPT !.explicit = flags.explicit, !.implicit = flags.implicit,
                      !.negated = flags.negated ]

FlagsOf(selected) ==
    [ explicit |-> selected.explicit, implicit |-> selected.implicit,
      negated |-> selected.negated ]

\* C24: confidence calibration is ordered.  With conflict and negation
\* status equal, an explicit winner gets a strictly higher confidence than
\* one that is not explicit; for the same winner a detected conflict
\* strictly lowers the confidence, by the fixed penalty of the field (to
\* the rounding of the double subtraction); for constraints and nonGoals a
\* negated winner gets a strictly lower confidence than a non-negated one.
C24_CalibrationOrdered ==
    pc = "resolved" /\ values # <<>> =>
        LET selected == LatestCandidate(values)
            hasConflict == ValueConflictExists(values) \/ PolarityConflictExists(values)
            confidence == resolved.field.confidence
            others == CandidateFlags(fieldKey)
            lowered == fieldConfidenceCalibrators(fieldKey, selected, TRUE)
            unlowered == fieldConfidenceCalibrators(fieldKey, selected, FALSE)
        IN  /\ confidence = IF hasConflict THEN lowered ELSE unlowered
            /\ \A flags \in others :
                  flags.negated = selected.negated /\ flags.explicit # selected.explicit =>
                     LET other == fieldConfidenceCalibrators(fieldKey,
                                      WinnerWith(selected, flags), hasConflict)
                     IN  IF selected.explicit THEN confidence > other
                         ELSE confidence < other
            /\ lowered < unlowered
            /\ unlowered - lowered \in (ConflictPenaltyOf(fieldKey) - 1)
                                          ..(ConflictPenaltyOf(fieldKey) + 1)
            /\ fieldKey \in {"constraints", "nonGoals"} =>
                  LET flipped == fieldConfidenceCalibrators(fieldKey,
                                     WinnerWith(selected,
                                         [ FlagsOf(selected) EXCEPT !.negated = ~@ ]),
                                     hasConflict)
                  IN  IF selected.negated THEN confidence < flipped
                      ELSE confidence > flipped

\* an explicit negated constraints winner in conflict with an earlier
\* statement: 0.8 - 0.08 - 0.12
C24_Witness ==
    /\ pc = "resolved"
    /\ fieldKey = "constraints"
    /\ Len(values) = 2
    /\ values[2].explicit /\ values[2].negated
    /\ ~values[1].negated
    /\ resolved.field.confidence
         = fieldConfidenceCalibrators("constraints", values[2], TRUE)
    /\ resolved.field.confidence < Hundredths(80) - Hundredths(8)

\* some line of the text has a 'user:' or 'assistant:' prefix
HasRoleMarker(text) ==
    LET lines == splitOn(text, {"\n"}, <<>>, <<>>)
    IN  \E i \in DOMAIN lines : roleMatch(trim(lines[i])).matched

\* C25: Transcript Segmenter.  Every line with a 'user:' or 'assistant:'
\* prefix starts a turn of that role, every other line is appended to the
\* turn of the most recent prefix, turns come in transcript order and
\* turns with empty content are omitted; the whole text becomes a single
\* implicit user turn only if no role marker is found anywhere and the
\* text is non-empty.
C25_AsStated ==
    pc = "segmented" =>
        LET text == renderedText.tokens
            scanned == scanLines(splitOn(text, {"\n"}, <<>>, <<>>), <<>>, NoRole, <<>>)
        IN  IF HasRoleMarker(text)
            THEN userTurns.items = SelectSeq(scanned, LAMBDA turn : turn.role = "user")
            ELSE userTurns.items =
                    IF trim(text) # <<>>
                    THEN << [ role |-> "user", content |-> trim(text) ] >>
                    ELSE <<>>

\* messages is an array with an element that is no { role, content } object
HasMalformedElement(messages) ==
    /\ messages.t = "array"
    /\ \E i \in DOMAIN messages.items : ~IsMessageObject(messages.items[i])

\* some message of the array is a user message with text
SuppliesUserText(messages) ==
    /\ messages.t = "array"
    /\ \E i \in DOMAIN messages.items :
          /\ IsMessageObject(messages.items[i])
          /\ messages.items[i].role.name = "user"
          /\ ~messages.items[i].content.blank

\* the request was answered 400 without any extraction work
RejectedBeforeExtraction ==
    /\ pc = "responded"
    /\ httpResponse.status = 400
    /\ classified = Idle
    /\ response = Idle
    /\ modelCalls = 0

\* C26: POST /api/generate-prompt rejects a request only for structurally
\* invalid input.  It answers 400 before any extraction work exactly when
\* messages is an array containing a malformed element, or when neither
\* messages nor transcript supplies any non-empty user text; a request with
\* a non-empty transcript and an empty messages array is accepted.
C26_AsStated ==
    pc # "received" /\ request.endpoint = "/api/generate-prompt" =>
        ( RejectedBeforeExtraction <=>
             \/ HasMalformedElement(request.messages)
             \/ /\ request.transcript.blank
                /\ ~SuppliesUserText(request.messages) )

\* the conflicts of the returned result that the Conflict Resolver recorded:
\* lines 357-360 put them before the model's
ResolverConflicts ==
    SubSeq(response.unresolvedConflicts, 1,
           Len(extractHeuristicBrief(classified).unresolvedConflicts))

\* C27: a conflict's selected value is the brief's value.  For each
\* UnresolvedConflict produced by the Conflict Resolver, selectedValue
\* equals brief[field] of the result extractBrief returns, also when the
\* result is model-assisted and the arbiter adopted the model's value.
C27_AsStated ==
    pc = "returned" =>
        \A i \in DOMAIN ResolverConflicts :
            ResolverConflicts[i].selectedValue
                = response.brief[ResolverConflicts[i].field]

----------------------------------------------------------------------------
(* A growing conversation in heuristic-only mode: after every user turn    *)
(* the transcript so far is extracted without a capability and the stages  *)
(* are inspected, as buildNormalizedBrief and inspectConversationStages do *)
(* for each request of the client.                                         *)

\* what the statement of an appended turn says about its field
TurnValues == { << "Draft", " ", "Memo" >>, << "FAQ" >> }

\* heuristic-only: fields of extractBrief's result, then their inspection
heuristicFields(byField) == extractHeuristicBrief(byField).fields

InitGrow ==
    /\ pc = "conversation"
    /\ classified = EmptyByField
    /\ normalizeWithModel = "undefined"
    /\ llmRaw = Idle
    /\ response = Idle
    /\ modelCalls = 0
    /\ finalFields = heuristicFields(EmptyByField)
    /\ progress = inspectConversationStages(heuristicFields(EmptyByField))
    /\ ResolverIdle
    /\ ArbiterIdle
    /\ ServerIdle
    /\ SessionIdle
    /\ TextIdle
    /\ CallsIdle
    /\ HookIdle

\* one more user turn, whose statement is classified for one field; the
\* next request extracts the longer transcript and inspects the stages
AppendUserTurn ==
    /\ pc = "conversation"
    /\ StatementCount(classified) < MaxTurns
    /\ \E key \in FieldKeys : \E flags \in CandidateFlags(key) :
          \E value \in TurnValues :
             classified' = [ classified EXCEPT ![key] =
                 Append(@, Candidate(key, value, flags,
                                     StatementCount(classified), 0)) ]
    /\ finalFields' = heuristicFields(classified')
    /\ progress' = inspectConversationStages(finalFields')
    /\ UNCHANGED <<pc, normalizeWithModel, llmRaw, response, modelCalls,
                   resolverVars, arbiterVars, serverVars, sessionVars,
                   textVars, callVars, hookVars>>

NextGrow == AppendUserTurn

SpecGrow == InitGrow /\ [][NextGrow]_vars

\* the appended turn negates constraints or non-goals
AppendedNegation ==
    \E key \in {"constraints", "nonGoals"} :
        /\ Len(classified'[key]) > Len(classified[key])
        /\ classified'[key][Len(classified'[key])].negated

\* no stage, count or gate of the inspection goes down in this step
ProgressKept ==
    /\ \A i \in DOMAIN progress.stages :
          progress.stages[i].complete => progress'.stages[i].complete
    /\ progress'.completedRequired >= progress.completedRequired
    /\ progress.canGenerateFinalPrompt => progress'.canGenerateFinalPrompt

\* C28: stage progress is monotone under additional evidence in
\* heuristic-only mode.  Appending to a transcript one user turn that
\* contains no negation of constraints or non-goals never turns a complete
\* stage incomplete, never lowers completedRequired and never flips
\* canGenerateFinalPrompt from true to false.
C28_AsStated ==
    [][ classified' # classified /\ ~AppendedNegation => ProgressKept ]_vars

----------------------------------------------------------------------------
(* usePromptSession: src/hooks/usePromptSession.js.                        *)
(* The hook's React state is one record; every handler is an operator from *)
(* the state it closes over to the state after its setters, together with  *)
(* the requests it starts.  The auto-save effect runs after every commit   *)
(* that changed `messages`, before the next handler.  Texts typed and      *)
(* received are token sequences, as in the segmenter.                      *)

MaxConversation == 4

STARTER_MESSAGE ==
    SessionMessage(StringOf("assistant"), StringOf(<< "Hi!" >>))

\* the state after the useState calls of lines 12-18
InitialState ==
    [ messages |-> << STARTER_MESSAGE >>,
      input |-> <<>>,
      loading |-> FALSE,
      error |-> "",
      lastSavedAt |-> NullValue,
      stageProgress |-> NullValue,
      isProgressExpanded |-> FALSE ]

\* what a handler did: the state it leaves, whether it passed a new array
\* to setMessages, and the requests it started
Handled(state, newMessages, started) ==
    [ state |-> state, newMessages |-> newMessages, started |-> started ]

\* the handler returned at its first line
Returned(state) == Handled(state, FALSE, <<>>)

Fetch(endpoint, sent) == [ endpoint |-> endpoint, messages |-> sent ]

\* a sendMessage without the loading test
sendMessageWhileLoading(state) ==
    LET trimmed == trim(state.input)
        nextMessages == Append(state.messages,
                               SessionMessage(StringOf("user"), StringOf(trimmed)))
    IN  IF trimmed = <<>> THEN Returned(state)
        ELSE Handled([ state EXCEPT !.messages = nextMessages,
                                    !.input = <<>>,
                                    !.error = "",
                                    !.loading = TRUE ],
                     TRUE, << Fetch("/api/chat", nextMessages) >>)

\* lines 36-50: up to the await of fetch
sendMessage(state) ==
    LET trimmed == trim(state.input)
        nextMessages == Append(state.messages,
                               SessionMessage(StringOf("user"), StringOf(trimmed)))
    IN  IF trimmed = <<>> \/ state.loading THEN Returned(state)
        ELSE Handled([ state EXCEPT !.messages = nextMessages,
                                    !.input = <<>>,
                                    !.error = "",
                                    !.loading = TRUE ],
                     TRUE, << Fetch("/api/chat", nextMessages) >>)

\* lines 68-78: up to the await of fetch
buildFinalPrompt(state) ==
    IF state.loading THEN Returned(state)
    ELSE Handled([ state EXCEPT !.error = "", !.loading = TRUE ],
                 FALSE, << Fetch("/api/generate-prompt", state.messages) >>)

\* lines 101-108
startNewSession(state) ==
    IF state.loading THEN Returned(state)
    ELSE Handled([ state EXCEPT !.messages = << STARTER_MESSAGE >>,
                                !.input = <<>>,
                                !.error = "",
                                !.stageProgress = NullValue,
                                !.isProgressExpanded = FALSE ],
                 TRUE, <<>>)

\* lines 110-124
restoreLastSession(state, store) ==
    LET stored == parseStoredSession(getItem(store)) IN
    IF state.loading THEN Returned(state)
    ELSE IF stored = NullValue
         THEN Handled([ state EXCEPT
                          !.error = "No previous session found in local storage." ],
                      FALSE, <<>>)
    ELSE Handled([ state EXCEPT !.messages = Member(stored, "messages").items,
                                !.error = "",
                                !.lastSavedAt = Member(stored, "savedAt"),
                                !.stageProgress = NullValue,
                                !.isProgressExpanded = FALSE ],
                 TRUE, <<>>)

\* payload.stageProgress || null
OrNull(value) == IF value.t = "undefined" THEN NullValue ELSE value

\* lines 58-60 and 85-92: the assistant message built from the payload
AssistantMessage(endpoint, payload) ==
    IF endpoint = "/api/chat"
    THEN SessionMessage(StringOf("assistant"), StringOf(payload.text))
    ELSE SessionMessage(StringOf("assistant"),
                        StringOf(<< "## Final Prompt", "\n", "\n" >> \o payload.text))

\* the try block after a response that is ok, and the finally block
settleSuccess(state, endpoint, payload) ==
    [ state EXCEPT !.messages = Append(@, AssistantMessage(endpoint, payload)),
                   !.stageProgress = OrNull(payload.stageProgress),
                   !.loading = FALSE ]

\* the catch block and the finally block
settleFailure(state, message) ==
    [ state EXCEPT !.error = message, !.loading = FALSE ]

\* What the effect of lines 126-132 leaves when it never writes
keepStorage(state, store, now) == [ state |-> state, storage |-> store ]

\* lines 126-132: the effect on [messages]
saveEffect(state, store, now) ==
    LET serialized == Text(serializeSession(state.messages, now))
        parsed == parseStoredSession(serialized)
    IN  [ state |-> [ state EXCEPT !.lastSavedAt =
                        IF parsed = NullValue THEN NullValue
                        ELSE IF Member(parsed, "savedAt").t = "string"
                                /\ Member(parsed, "savedAt").s # ""
                             THEN Member(parsed, "savedAt")
                        ELSE NullValue ],
          storage |-> serialized ]

\* texts the user types
Inputs == { <<>>, << " " >>, << "Hello" >>, << " ", "Thanks", " " >> }

\* payloads of answers that are ok
ProgressPayload == ObjectValue([ completedRequired |-> NumberValue(1) ])
Payloads ==
    { [ text |-> << "Sure" >>, stageProgress |-> ProgressPayload ],
      [ text |-> <<>>, stageProgress |-> Undefined ] }

\* messages of the errors the try block can throw
Failures ==
    { "Failed to fetch",
      "Please add a message describing your goal, then try generating again." }

\* what an earlier page left under the key
EarlierStorage ==
    { Idle,
      Text(<< Lit("not-json") >>),
      Text(serializeSession(<< STARTER_MESSAGE,
                               SessionMessage(StringOf("user"), StringOf(<< "Earlier" >>)) >>,
                            "2024-01-01T00:00:00.000Z")) }

InitHook ==
    /\ pc = "mounting"
    /\ hook = InitialState
    /\ fetching = <<>>
    /\ storage \in EarlierStorage
    /\ written = Idle
    /\ session = Idle
    /\ ResolverIdle
    /\ ArbiterIdle
    /\ EngineIdle
    /\ ExtractorIdle
    /\ ServerIdle
    /\ TextIdle
    /\ CallsIdle

exceptHook ==
    << written, session, resolverVars, arbiterVars, engineVars, extractorVars,
       serverVars, textVars, callVars >>

\* the commit after a handler or a settled request: the effect runs when
\* messages is a new array
Commit(next, newMessages) ==
    IF newMessages
    THEN \E now \in Timestamps :
            LET saved == saveEffect(next, storage, now) IN
            /\ hook' = saved.state
            /\ storage' = saved.storage
    ELSE hook' = next /\ storage' = storage

\* a handler runs, then its commit
Handle(handled) ==
    /\ Commit(handled.state, handled.newMessages)
    /\ fetching' = fetching \o handled.started

\* the first render: the effect runs once
Mount ==
    /\ pc = "mounting"
    /\ Commit(hook, TRUE)
    /\ pc' = "mounted"
    /\ UNCHANGED << fetching, exceptHook >>

SetInput ==
    /\ pc # "mounting"
    /\ \E text \in Inputs : hook' = [ hook EXCEPT !.input = text ]
    /\ pc' = "setInput"
    /\ UNCHANGED << fetching, storage, exceptHook >>

SendMessage ==
    /\ pc # "mounting"
    /\ Len(hook.messages) + 2 <= MaxConversation
    /\ Handle(sendMessage(hook))
    /\ pc' = "sendMessage"
    /\ UNCHANGED exceptHook

BuildFinalPrompt ==
    /\ pc # "mounting"
    /\ Len(hook.messages) + 1 <= MaxConversation
    /\ Handle(buildFinalPrompt(hook))
    /\ pc' = "buildFinalPrompt"
    /\ UNCHANGED exceptHook

StartNewSession ==
    /\ pc # "mounting"
    /\ Handle(startNewSession(hook))
    /\ pc' = "startNewSession"
    /\ UNCHANGED exceptHook

RestoreLastSession ==
    /\ pc # "mounting"
    /\ Handle(restoreLastSession(hook, storage))
    /\ pc' = "restoreLastSession"
    /\ UNCHANGED exceptHook

\* an awaited request is answered with an ok response
RequestSucceeds ==
    /\ pc # "mounting"
    /\ \E i \in DOMAIN fetching : \E payload \in Payloads :
          /\ Commit(settleSuccess(hook, fetching[i].endpoint, payload), TRUE)
          /\ fetching' = SubSeq(fetching, 1, i - 1)
                         \o SubSeq(fetching, i + 1, Len(fetching))
    /\ pc' = "succeeded"
    /\ UNCHANGED exceptHook

\* fetch rejects, the response is not ok, or its body cannot be read
RequestFails ==
    /\ pc # "mounting"
    /\ \E i \in DOMAIN fetching : \E message \in Failures :
          /\ Commit(settleFailure(hook, message), FALSE)
          /\ fetching' = SubSeq(fetching, 1, i - 1)
                         \o SubSeq(fetching, i + 1, Len(fetching))
    /\ pc' = "failed"
    /\ UNCHANGED exceptHook

NextHook ==
    \/ Mount
    \/ SetInput
    \/ SendMessage
    \/ BuildFinalPrompt
    \/ StartNewSession
    \/ RestoreLastSession
    \/ RequestSucceeds
    \/ RequestFails

SpecHook == InitHook /\ [][NextHook]_vars

\* the four operations that are refused while a request is awaited
GuardedOperations ==
    { "sendMessage", "buildFinalPrompt", "startNewSession", "restoreLastSession" }

\* what a step of the hook may do to the awaited request
RequestDiscipline ==
    /\ hook.loading /\ pc' \in GuardedOperations =>
          /\ hook'.messages = hook.messages
          /\ hook'.input = hook.input
          /\ hook'.error = hook.error
          /\ hook'.stageProgress = hook.stageProgress
          /\ fetching' = fetching
    /\ pc' \in { "succeeded", "failed" } => ~hook'.loading
    /\ pc' = "failed" =>
          /\ hook'.messages = hook.messages
          /\ hook'.error # ""

\* C29: the hook keeps at most one request in flight.  While loading is
\* true, sendMessage, buildFinalPrompt, startNewSession and
\* restoreLastSession leave messages, input, error and stageProgress
\* unchanged and start no request; loading is set false when the request
\* settles, on success and on failure; a failed request appends no
\* assistant message and sets error.
C29_OneRequestInFlight ==
    /\ [](Len(fetching) <= 1 /\ (hook.loading <=> fetching # <<>>))
    /\ [][RequestDiscipline]_vars

\* sendMessage was called with a text typed while the request of
\* buildFinalPrompt was awaited, and the request is still the only one
C29_Witness ==
    /\ pc = "sendMessage"
    /\ hook.loading
    /\ trim(hook.input) # <<>>
    /\ Len(fetching) = 1
    /\ fetching[1].endpoint = "/api/generate-prompt"

\* the stored text reads back as the current message list
StorageHoldsMessages ==
    LET stored == parseStoredSession(getItem(storage)) IN
    /\ stored # NullValue
    /\ Member(stored, "messages") = ArrayValue(hook.messages)

\* C30: the saved session is the current conversation.  After the save
\* effect has run, the storage under SESSION_STORAGE_KEY holds exactly the
\* current message list; so after any sequence of sendMessage,
\* buildFinalPrompt, startNewSession and restoreLastSession,
\* restoreLastSession replaces messages with a list of the same roles and
\* contents as the current one and never brings back an earlier
\* conversation.
C30_SavedIsCurrent ==
    /\ [](pc # "mounting" => StorageHoldsMessages)
    /\ [][pc' = "restoreLastSession" => hook'.messages = hook.messages]_vars

\* restoreLastSession ran, with no request awaited, on a conversation of
\* a starter message, a user message and a reply
C30_Witness ==
    /\ pc = "restoreLastSession"
    /\ ~hook.loading
    /\ hook.error = ""
    /\ Len(hook.messages) = 3
    /\ Member(hook.messages[2], "role") = StringOf("user")
    /\ StorageHoldsMessages

====
